---------------------------- MODULE Spec2Model ----------------------------
(***************************************************************************)
(* Model of the Azure DevOps automation scripts:                           *)
(*   - azure_pipelines/setup_repo/setup_repo.py  (CreateAzureRepo, main)   *)
(*   - azure_pipelines/pull_requests/pull_request_comment.py (Message)     *)
(*   - azure_pipelines/pull_requests/comment.py  (the PR-comment script)   *)
(*   - azure_pipelines/load_env/config.py  (CDKConfig)                     *)
(*   - azure_pipelines/logging_config.py  (get_logger, configure_logging)  *)
(*                                                                         *)
(* The remote REST service and the git executable are the environment:     *)
(* every request is answered by an HTTP response (status, body) and every  *)
(* git command runs and ends with an exit status; both are chosen          *)
(* nondeterministically.  A body is either not JSON or a JSON object.      *)
(* Identifiers returned by the service are non-empty (GUIDs, positive      *)
(* numbers), hence truthy in Python.  An exception that escapes a method   *)
(* is recorded as the result of the call ("KeyError", "ValueError").       *)
(***************************************************************************)
EXTENDS Integers, Sequences, FiniteSets, TLC

(***************************************************************************)
(* Bounds of the model.                                                    *)
(***************************************************************************)
MaxId == 2
MaxPipelines == 2
MaxFiles == 3

(***************************************************************************)
(* Values.                                                                 *)
(***************************************************************************)
\* Python's None for an identifier attribute or an absent "id" key.
None == -1

Ids == 1..MaxId

\* HTTP statuses the service may answer with.
StatusCodes == {200, 201, 409, 500}

\* Names a repository may be given on the command line (token sequences).
RepoNames == {<<"demo">>, <<"app">>}

\* Python truthiness of an identifier attribute: `not x`.
Falsy(x) == x = None \/ x = 0

\* Python `sub in name` on strings, here on token sequences.
Contains(sub, name) ==
    \E i \in 1..(Len(name) - Len(sub) + 1) :
        SubSeq(name, i, i + Len(sub) - 1) = sub

(***************************************************************************)
(* Responses.  A body is either not JSON at all (json = FALSE) or a JSON   *)
(* object with an optional "id" key (id = None when absent) and an         *)
(* optional "value" key holding a list of pipelines.                       *)
(***************************************************************************)
Body(json, id, hasValue, value) ==
    [json |-> json, id |-> id, hasValue |-> hasValue, value |-> value]

InvalidBody == Body(FALSE, None, FALSE, <<>>)
EmptyObject == Body(TRUE, None, FALSE, <<>>)

\* Bodies answered to a create / lookup request.
IdBodies == {InvalidBody, EmptyObject} \cup {Body(TRUE, i, FALSE, <<>>) : i \in Ids}

\* One entry of the pipeline listing; id = None models an entry without "id".
PipelineNames ==
    {<<r, "-", s>> : r \in {x[1] : x \in RepoNames}, s \in {"pull-request", "release"}}

Pipelines == [name : PipelineNames, id : Ids \cup {None}]

PipelineLists == UNION {[1..n -> Pipelines] : n \in 0..MaxPipelines}

\* Bodies answered to the pipeline listing request.
ListBodies == {InvalidBody, EmptyObject} \cup {Body(TRUE, None, TRUE, l) : l \in PipelineLists}

Response(status, body) == [status |-> status, body |-> body]

NoResponse == Response(0, InvalidBody)

\* response.json()["id"]: "ValueError" when the body is not JSON,
\* "KeyError" when the key is absent, "ok" otherwise.
JsonIdOutcome(body) ==
    IF ~body.json THEN "ValueError"
    ELSE IF body.id = None THEN "KeyError"
    ELSE "ok"

(***************************************************************************)
(* Requests, as recorded in the trace of HTTP calls.                       *)
(***************************************************************************)
Request(method, api, project, name, path, repositoryId, buildDefinitionId) ==
    [method |-> method, api |-> api, project |-> project, name |-> name,
     path |-> path, repositoryId |-> repositoryId,
     buildDefinitionId |-> buildDefinitionId]

VARIABLES
    new_repo_name,          \* CreateAzureRepo.new_repo_name
    new_repository_id,      \* CreateAzureRepo.new_repository_id
    cicd_pull_request_id,   \* CreateAzureRepo.cicd_pull_request_id
    message,                \* the Message object of the PR-comment client
    last,                   \* the last operation: inputs, result, requests
    pc,                     \* position of main() in the workflow
    calls,                  \* operations invoked by main(), in order
    http,                   \* requests sent during the run of main()
    config,                 \* the CDKConfig object: environment and data
    loggers,                \* the logging registry: level and handlers by name
    remote                  \* the service: the repositories it holds, by name

vars == <<new_repo_name, new_repository_id, cicd_pull_request_id, message, last,
          pc, calls, http, config, loggers, remote>>

pipeline_stages == <<"development", "pull-request", "release">>


(***************************************************************************)
(* CreateAzureRepo: the methods, each as a function of the attributes it   *)
(* reads and of the answers of the environment.  The result holds the      *)
(* returned value (ret: "True", "False", "None", or the name of the        *)
(* exception that escapes), the attributes after the call and the          *)
(* requests sent, in order.                                                *)
(***************************************************************************)
Outcome(ret, repoId, prId, reqs) ==
    [ret |-> ret, new_repository_id |-> repoId, cicd_pull_request_id |-> prId,
     reqs |-> reqs]

\* _get_existing_repo_id with the status of the answer not checked.
GetExistingRepoIdAnyStatus(name, repoId, prId, getResp) ==
    LET get == Request("GET", "git/repositories/{name}", "parent", name, "", None, None)
    IN  IF JsonIdOutcome(getResp.body) = "ok"
        THEN Outcome("True", getResp.body.id, prId, <<get>>)
        ELSE Outcome("False", repoId, prId, <<get>>)

\* _get_existing_repo_id: one GET of the repository by name.
_get_existing_repo_id(name, repoId, prId, getResp) ==
    LET get == Request("GET", "git/repositories/{name}", "parent", name, "", None, None)
    IN  IF getResp.status = 200
        THEN IF JsonIdOutcome(getResp.body) = "ok"
             THEN Outcome("True", getResp.body.id, prId, <<get>>)
             ELSE Outcome("False", repoId, prId, <<get>>)
        ELSE Outcome("False", repoId, prId, <<get>>)

\* create_azure_devops_repo looking the repository up after every answer
\* other than 201.
CreateRepoAlwaysLookup(name, repoId, prId, resp, getResp) ==
    LET post == Request("POST", "git/repositories", "", name, "", None, None)
        found == _get_existing_repo_id(name, repoId, prId, getResp)
    IN  IF resp.status = 201 /\ JsonIdOutcome(resp.body) = "ok"
        THEN Outcome("True", resp.body.id, prId, <<post>>)
        ELSE Outcome(found.ret, found.new_repository_id, prId, <<post>> \o found.reqs)

\* create_azure_devops_repo taking 409 for a failure like any other.
CreateRepoFailsOn409(name, repoId, prId, resp, getResp) ==
    LET post == Request("POST", "git/repositories", "", name, "", None, None)
    IN  IF resp.status = 201
        THEN IF JsonIdOutcome(resp.body) = "ok"
             THEN Outcome("True", resp.body.id, prId, <<post>>)
             ELSE Outcome(JsonIdOutcome(resp.body), repoId, prId, <<post>>)
        ELSE Outcome("False", repoId, prId, <<post>>)

\* create_azure_devops_repo: POST create; 201 stores the id, 409 looks the
\* repository up, anything else fails.
create_azure_devops_repo(name, repoId, prId, resp, getResp) ==
    LET post == Request("POST", "git/repositories", "", name, "", None, None)
    IN  IF resp.status = 201
        THEN IF JsonIdOutcome(resp.body) = "ok"
             THEN Outcome("True", resp.body.id, prId, <<post>>)
             ELSE Outcome(JsonIdOutcome(resp.body), repoId, prId, <<post>>)
        ELSE IF resp.status = 409
        THEN LET found == _get_existing_repo_id(name, repoId, prId, getResp)
             IN  Outcome(found.ret, found.new_repository_id, prId,
                         <<post>> \o found.reqs)
        ELSE Outcome("False", repoId, prId, <<post>>)

\* The search loop taking the first pipeline named "pull-request", of any
\* repository.
RECURSIVE SearchAnyPullRequest(_, _, _, _)
SearchAnyPullRequest(name, pipelines, i, prId) ==
    IF i > Len(pipelines) THEN prId
    ELSE IF Contains(<<"pull-request">>, pipelines[i].name)
         THEN IF pipelines[i].id = None THEN prId ELSE pipelines[i].id
         ELSE SearchAnyPullRequest(name, pipelines, i + 1, prId)

\* The search loop of _handle_pull_request_pipeline: the first pipeline whose
\* name contains the repository name and "pull-request" ends the loop; an
\* entry without "id" raises KeyError, which ends the loop with nothing stored.
RECURSIVE SearchPipelines(_, _, _, _)
SearchPipelines(name, pipelines, i, prId) ==
    IF i > Len(pipelines) THEN prId
    ELSE IF Contains(name, pipelines[i].name)
            /\ Contains(<<"pull-request">>, pipelines[i].name)
         THEN IF pipelines[i].id = None THEN prId ELSE pipelines[i].id
         ELSE SearchPipelines(name, pipelines, i + 1, prId)

\* _handle_pull_request_pipeline asking for the listing a second time when
\* the first answer is not 200.
HandleRetriesSearch(name, repoId, prId, response, searchResp) ==
    IF JsonIdOutcome(response.body) = "ok"
    THEN Outcome("None", repoId, response.body.id, <<>>)
    ELSE LET get == Request("GET", "pipelines", "source", <<>>, "", None, None)
         IN  IF searchResp.status # 200
             THEN Outcome("None", repoId, prId, <<get, get>>)
             ELSE IF ~searchResp.body.json
             THEN Outcome("None", repoId, prId, <<get>>)
             ELSE LET pipelines == IF searchResp.body.hasValue
                                   THEN searchResp.body.value ELSE <<>>
                  IN  Outcome("None", repoId,
                              SearchPipelines(name, pipelines, 1, prId), <<get>>)

\* _handle_pull_request_pipeline: the id of the creation response, or else
\* the fallback search in the source project.
_handle_pull_request_pipeline(name, repoId, prId, response, searchResp) ==
    IF JsonIdOutcome(response.body) = "ok"
    THEN Outcome("None", repoId, response.body.id, <<>>)
    ELSE LET get == Request("GET", "pipelines", "source", <<>>, "", None, None)
         IN  IF searchResp.status # 200
             THEN Outcome("None", repoId, prId, <<get>>)
             ELSE IF ~searchResp.body.json
             THEN Outcome("None", repoId, prId, <<get>>)
             ELSE LET pipelines == IF searchResp.body.hasValue
                                   THEN searchResp.body.value ELSE <<>>
                  IN  Outcome("None", repoId,
                              SearchPipelines(name, pipelines, 1, prId), <<get>>)

\* The definition path of a stage.
PipelinePath(stage) ==
    IF stage = "development" THEN "/azure-pipelines.yml"
    ELSE "/azure-pipelines-" \o stage \o ".yml"

\* The loop of create_pipelines ending at the first stage not answered 200.
RECURSIVE PipelineLoopUntilFailure(_, _, _, _, _, _, _)
PipelineLoopUntilFailure(name, repoId, prId, resps, searchResp, i, reqs) ==
    IF i > Len(pipeline_stages) THEN Outcome("None", repoId, prId, reqs)
    ELSE LET stage == pipeline_stages[i]
             post == Request("POST", "pipelines", "parent", name \o <<"-", stage>>,
                             PipelinePath(stage), repoId, None)
             handled == IF stage = "pull-request"
                        THEN _handle_pull_request_pipeline(name, repoId, prId,
                                                           resps[i], searchResp)
                        ELSE Outcome("None", repoId, prId, <<>>)
         IN  IF resps[i].status # 200
             THEN Outcome("None", repoId, handled.cicd_pull_request_id,
                          (reqs \o <<post>>) \o handled.reqs)
             ELSE PipelineLoopUntilFailure(name, repoId, handled.cicd_pull_request_id,
                      resps, searchResp, i + 1, (reqs \o <<post>>) \o handled.reqs)

\* The loop of create_pipelines ending after the pull-request stage when no
\* pull-request-pipeline id is stored by then.
RECURSIVE PipelineLoopNeedsPullRequestId(_, _, _, _, _, _, _)
PipelineLoopNeedsPullRequestId(name, repoId, prId, resps, searchResp, i, reqs) ==
    IF i > Len(pipeline_stages) THEN Outcome("None", repoId, prId, reqs)
    ELSE LET stage == pipeline_stages[i]
             post == Request("POST", "pipelines", "parent", name \o <<"-", stage>>,
                             PipelinePath(stage), repoId, None)
             handled == IF stage = "pull-request"
                        THEN _handle_pull_request_pipeline(name, repoId, prId,
                                                           resps[i], searchResp)
                        ELSE Outcome("None", repoId, prId, <<>>)
         IN  IF stage = "pull-request" /\ Falsy(handled.cicd_pull_request_id)
             THEN Outcome("None", repoId, handled.cicd_pull_request_id,
                          (reqs \o <<post>>) \o handled.reqs)
             ELSE PipelineLoopNeedsPullRequestId(name, repoId,
                      handled.cicd_pull_request_id, resps, searchResp, i + 1,
                      (reqs \o <<post>>) \o handled.reqs)

\* The loop of create_pipelines reading the id of the answer of every stage.
RECURSIVE PipelineLoopReadsEveryStage(_, _, _, _, _, _, _)
PipelineLoopReadsEveryStage(name, repoId, prId, resps, searchResp, i, reqs) ==
    IF i > Len(pipeline_stages) THEN Outcome("None", repoId, prId, reqs)
    ELSE LET stage == pipeline_stages[i]
             post == Request("POST", "pipelines", "parent", name \o <<"-", stage>>,
                             PipelinePath(stage), repoId, None)
             handled == IF stage = "pull-request"
                        THEN _handle_pull_request_pipeline(name, repoId, prId,
                                                           resps[i], searchResp)
                        ELSE IF JsonIdOutcome(resps[i].body) = "ok"
                        THEN Outcome("None", repoId, resps[i].body.id, <<>>)
                        ELSE Outcome("None", repoId, prId, <<>>)
         IN  PipelineLoopReadsEveryStage(name, repoId, handled.cicd_pull_request_id,
                 resps, searchResp, i + 1, (reqs \o <<post>>) \o handled.reqs)

\* The loop of create_pipelines from stage number i on.
RECURSIVE PipelineLoop(_, _, _, _, _, _, _)
PipelineLoop(name, repoId, prId, resps, searchResp, i, reqs) ==
    IF i > Len(pipeline_stages) THEN Outcome("None", repoId, prId, reqs)
    ELSE LET stage == pipeline_stages[i]
             post == Request("POST", "pipelines", "parent", name \o <<"-", stage>>,
                             PipelinePath(stage), repoId, None)
             handled == IF stage = "pull-request"
                        THEN _handle_pull_request_pipeline(name, repoId, prId,
                                                           resps[i], searchResp)
                        ELSE Outcome("None", repoId, prId, <<>>)
         IN  PipelineLoop(name, repoId, handled.cicd_pull_request_id, resps,
                          searchResp, i + 1, (reqs \o <<post>>) \o handled.reqs)

\* create_pipelines without the test of the repository id.
CreatePipelinesUnguarded(name, repoId, prId, resps, searchResp) ==
    PipelineLoop(name, repoId, prId, resps, searchResp, 1, <<>>)

\* create_pipelines: nothing without a repository id, else one POST per stage.
create_pipelines(name, repoId, prId, resps, searchResp) ==
    IF Falsy(repoId) THEN Outcome("None", repoId, prId, <<>>)
    ELSE PipelineLoop(name, repoId, prId, resps, searchResp, 1, <<>>)

\* git_migrate with the exit status of "git remote set-url" not checked.
GitMigrateSetUrlUnchecked(setUrl, push) ==
    IF push # "ok" THEN [ret |-> "False", cmds |-> <<"remote set-url", "push">>]
    ELSE [ret |-> "True", cmds |-> <<"remote set-url", "push">>]

\* git_migrate: the commands run and the result, given the exit status of
\* "git remote set-url" and of "git push" ("ok" or "fail").
git_migrate(setUrl, push) ==
    IF setUrl # "ok" THEN [ret |-> "False", cmds |-> <<"remote set-url">>]
    ELSE IF push # "ok" THEN [ret |-> "False", cmds |-> <<"remote set-url", "push">>]
    ELSE [ret |-> "True", cmds |-> <<"remote set-url", "push">>]

\* The body of the policy POST: a blocking build validation of the given
\* build definition, for the master branch of the given repository.
PolicyBody(repoId, prId) ==
    [isEnabled |-> TRUE, isBlocking |-> TRUE, isDeleted |-> FALSE,
     isEnterpriseManaged |-> FALSE,
     type |-> [id |-> "0609b952-1397-4640-95ec-e00a01b2c241"],
     settings |-> [buildDefinitionId |-> prId,
                   manualQueueOnly |-> FALSE,
                   queueOnSourceUpdateOnly |-> TRUE,
                   scope |-> <<[repositoryId |-> repoId,
                                refName |-> "refs/heads/master",
                                matchKind |-> "exact"]>>,
                   validDuration |-> 720]]

\* The policy POST, to the source project, with its body.
PolicyRequest(body) ==
    [method |-> "POST", api |-> "policy/configurations", project |-> "source",
     name |-> <<>>, path |-> body.settings.scope[1].refName,
     repositoryId |-> body.settings.scope[1].repositoryId,
     buildDefinitionId |-> body.settings.buildDefinitionId,
     json |-> body]

\* create_pull_request_policy taking 409 (the policy exists) for a success.
CreatePolicyTrueOn409(name, repoId, prId, resp) ==
    IF Falsy(prId) \/ Falsy(repoId) THEN Outcome("False", repoId, prId, <<>>)
    ELSE LET post == PolicyRequest(PolicyBody(repoId, prId))
         IN  Outcome(IF resp.status \in {200, 409} THEN "True" ELSE "False",
                     repoId, prId, <<post>>)

\* create_pull_request_policy with the two ids of the body exchanged.
CreatePolicyIdsExchanged(name, repoId, prId, resp) ==
    IF Falsy(prId) \/ Falsy(repoId) THEN Outcome("False", repoId, prId, <<>>)
    ELSE LET post == PolicyRequest(PolicyBody(prId, repoId))
         IN  Outcome(IF resp.status = 200 THEN "True" ELSE "False",
                     repoId, prId, <<post>>)

\* create_pull_request_policy forgetting both ids when the policy is refused.
CreatePolicyResetsOnFailure(name, repoId, prId, resp) ==
    IF Falsy(prId) \/ Falsy(repoId) THEN Outcome("False", repoId, prId, <<>>)
    ELSE LET post == PolicyRequest(PolicyBody(repoId, prId))
         IN  IF resp.status = 200 THEN Outcome("True", repoId, prId, <<post>>)
             ELSE Outcome("False", None, None, <<post>>)

\* create_pull_request_policy refusing only when both ids are missing.
CreatePolicyBothMissing(name, repoId, prId, resp) ==
    IF Falsy(prId) /\ Falsy(repoId) THEN Outcome("False", repoId, prId, <<>>)
    ELSE LET post == PolicyRequest(PolicyBody(repoId, prId))
         IN  Outcome(IF resp.status = 200 THEN "True" ELSE "False",
                     repoId, prId, <<post>>)

\* create_pull_request_policy: needs both ids, then one POST.
create_pull_request_policy(name, repoId, prId, resp) ==
    IF Falsy(prId) \/ Falsy(repoId) THEN Outcome("False", repoId, prId, <<>>)
    ELSE LET post == PolicyRequest(PolicyBody(repoId, prId))
         IN  Outcome(IF resp.status = 200 THEN "True" ELSE "False",
                     repoId, prId, <<post>>)

(***************************************************************************)
(* Message: the PR-comment client.                                         *)
(***************************************************************************)
API_VERSION == "7.1"

\* The text of a sequence of characters.
RECURSIVE Join(_)
Join(chars) == IF chars = <<>> THEN "" ELSE Head(chars) \o Join(Tail(chars))

\* source_version[:5]
FirstFive(chars) == SubSeq(chars, 1, IF Len(chars) < 5 THEN Len(chars) ELSE 5)

\* The environment variables Message.__init__ reads.
Environments ==
    [SYSTEM_ACCESSTOKEN : {"secret"},
     SYSTEM_COLLECTIONURI : {"https://dev.azure.com/"},
     SYSTEM_PULLREQUEST_PULLREQUESTID : {"22", "7"},
     SYSTEM_TEAMPROJECT : {"fabrikam", "cdk-projects"},
     BUILD_REPOSITORY_ID : {"abc"},
     BUILD_SOURCEVERSION : {<<>>, <<"a", "h", "k">>,
                            <<"a", "h", "k", "j", "s", "2", "1">>}]

\* Message.__init__ with the pull request addressed before the repository.
MessageOfPullRequestFirst(env) ==
    [token |-> env.SYSTEM_ACCESSTOKEN,
     collection_uri |-> env.SYSTEM_COLLECTIONURI,
     pull_request_id |-> env.SYSTEM_PULLREQUEST_PULLREQUESTID,
     team_project |-> env.SYSTEM_TEAMPROJECT,
     repository_id |-> env.BUILD_REPOSITORY_ID,
     commit_sha_prefix |-> Join(FirstFive(env.BUILD_SOURCEVERSION)),
     base_url |-> env.SYSTEM_COLLECTIONURI \o env.SYSTEM_TEAMPROJECT
                  \o "/_apis/git/pullRequests/"
                  \o env.SYSTEM_PULLREQUEST_PULLREQUESTID
                  \o "/repositories/" \o env.BUILD_REPOSITORY_ID]

\* Message.__init__
MessageOf(env) ==
    [token |-> env.SYSTEM_ACCESSTOKEN,
     collection_uri |-> env.SYSTEM_COLLECTIONURI,
     pull_request_id |-> env.SYSTEM_PULLREQUEST_PULLREQUESTID,
     team_project |-> env.SYSTEM_TEAMPROJECT,
     repository_id |-> env.BUILD_REPOSITORY_ID,
     commit_sha_prefix |-> Join(FirstFive(env.BUILD_SOURCEVERSION)),
     base_url |-> env.SYSTEM_COLLECTIONURI \o env.SYSTEM_TEAMPROJECT
                  \o "/_apis/git/repositories/" \o env.BUILD_REPOSITORY_ID
                  \o "/pullRequests/" \o env.SYSTEM_PULLREQUEST_PULLREQUESTID]

\* No Message object constructed.
NoMessage ==
    [token |-> "", collection_uri |-> "", pull_request_id |-> "",
     team_project |-> "", repository_id |-> "", commit_sha_prefix |-> "",
     base_url |-> ""]

\* Message.add_msg accepting every 2xx status.
AddMsgAnySuccess(msg, comment, resp) ==
    LET post == [method |-> "POST",
                 url |-> msg.base_url \o "/threads?api-version=" \o API_VERSION,
                 content_type |-> "application/json",
                 authorization |-> "Bearer " \o msg.token,
                 json |-> [comments |-> <<[parentCommentId |-> 1,
                                           content |-> comment,
                                           commentType |-> 1]>>,
                           status |-> 1]]
    IN  [ret |-> IF resp.status >= 200 /\ resp.status < 300 THEN "True" ELSE "False",
         reqs |-> <<post>>]

\* Message.add_msg: one POST of a single-comment thread; True iff 200.
add_msg(msg, comment, resp) ==
    LET post == [method |-> "POST",
                 url |-> msg.base_url \o "/threads?api-version=" \o API_VERSION,
                 content_type |-> "application/json",
                 authorization |-> "Bearer " \o msg.token,
                 json |-> [comments |-> <<[parentCommentId |-> 1,
                                           content |-> comment,
                                           commentType |-> 1]>>,
                           status |-> 1]]
    IN  [ret |-> IF resp.status = 200 THEN "True" ELSE "False", reqs |-> <<post>>]

\* The body of the answer to an upload: JSON or not, with or without "url"
\* (url = "None" is what .get("url") formats to when the key is absent).
UploadBody(json, url) == [json |-> json, url |-> url]

\* Message.upload_attachment_and_comment with the path not tested.
UploadWithoutFileCheck(msg, isFile, resp, first, second) ==
    LET upload == [method |-> "POST",
                   url |-> msg.base_url \o "/attachments/diagram-"
                           \o msg.commit_sha_prefix \o ".png?api-version="
                           \o API_VERSION,
                   content_type |-> "application/octet-stream",
                   authorization |-> "Bearer " \o msg.token,
                   json |-> [comments |-> <<>>, status |-> 0]]
    IN  IF resp.status = 201
        THEN IF ~resp.body.json THEN [ret |-> "ValueError", reqs |-> <<upload>>]
             ELSE LET ref == resp.body.url
                      link == add_msg(msg, "[Architecture Diagram](" \o ref \o ")",
                                      first)
                      image == add_msg(msg, "<img src=\"" \o ref
                                            \o "\" alt=\"Architecture Diagram\">",
                                       second)
                  IN  [ret |-> "True", reqs |-> (<<upload>> \o link.reqs) \o image.reqs]
        ELSE [ret |-> "False", reqs |-> <<upload>>]

\* Message.upload_attachment_and_comment posting the link comment whatever the
\* status of the upload.
UploadLinkOnAnyStatus(msg, isFile, resp, first, second) ==
    LET upload == [method |-> "POST",
                   url |-> msg.base_url \o "/attachments/diagram-"
                           \o msg.commit_sha_prefix \o ".png?api-version="
                           \o API_VERSION,
                   content_type |-> "application/octet-stream",
                   authorization |-> "Bearer " \o msg.token,
                   json |-> [comments |-> <<>>, status |-> 0]]
    IN  IF ~isFile THEN [ret |-> "False", reqs |-> <<>>]
        ELSE IF resp.status = 201 /\ ~resp.body.json
        THEN [ret |-> "ValueError", reqs |-> <<upload>>]
        ELSE LET ref == resp.body.url
                 link == add_msg(msg, "[Architecture Diagram](" \o ref \o ")", first)
                 image == add_msg(msg, "<img src=\"" \o ref
                                       \o "\" alt=\"Architecture Diagram\">",
                                  second)
             IN  IF resp.status = 201
                 THEN [ret |-> "True",
                       reqs |-> (<<upload>> \o link.reqs) \o image.reqs]
                 ELSE [ret |-> "False", reqs |-> <<upload>> \o link.reqs]

\* Message.upload_attachment_and_comment returning what the two comments
\* returned.
UploadResultOfComments(msg, isFile, resp, first, second) ==
    LET upload == [method |-> "POST",
                   url |-> msg.base_url \o "/attachments/diagram-"
                           \o msg.commit_sha_prefix \o ".png?api-version="
                           \o API_VERSION,
                   content_type |-> "application/octet-stream",
                   authorization |-> "Bearer " \o msg.token,
                   json |-> [comments |-> <<>>, status |-> 0]]
    IN  IF ~isFile THEN [ret |-> "False", reqs |-> <<>>]
        ELSE IF resp.status = 201
        THEN IF ~resp.body.json THEN [ret |-> "ValueError", reqs |-> <<upload>>]
             ELSE LET ref == resp.body.url
                      link == add_msg(msg, "[Architecture Diagram](" \o ref \o ")",
                                      first)
                      image == add_msg(msg, "<img src=\"" \o ref
                                            \o "\" alt=\"Architecture Diagram\">",
                                       second)
                  IN  [ret |-> IF link.ret = "True" /\ image.ret = "True"
                               THEN "True" ELSE "False",
                       reqs |-> (<<upload>> \o link.reqs) \o image.reqs]
        ELSE [ret |-> "False", reqs |-> <<upload>>]

\* Message.upload_attachment_and_comment: no call for a missing file; on 201
\* two comments follow, whose results are not read.
upload_attachment_and_comment(msg, isFile, resp, first, second) ==
    LET upload == [method |-> "POST",
                   url |-> msg.base_url \o "/attachments/diagram-"
                           \o msg.commit_sha_prefix \o ".png?api-version="
                           \o API_VERSION,
                   content_type |-> "application/octet-stream",
                   authorization |-> "Bearer " \o msg.token,
                   json |-> [comments |-> <<>>, status |-> 0]]
    IN  IF ~isFile THEN [ret |-> "False", reqs |-> <<>>]
        ELSE IF resp.status = 201
        THEN IF ~resp.body.json THEN [ret |-> "ValueError", reqs |-> <<upload>>]
             ELSE LET ref == resp.body.url
                      link == add_msg(msg, "[Architecture Diagram](" \o ref \o ")",
                                      first)
                      image == add_msg(msg, "<img src=\"" \o ref
                                            \o "\" alt=\"Architecture Diagram\">",
                                       second)
                  IN  [ret |-> "True", reqs |-> (<<upload>> \o link.reqs) \o image.reqs]
        ELSE [ret |-> "False", reqs |-> <<upload>>]

(***************************************************************************)
(* comment.py: the script that comments a pull request with the CDK diff   *)
(* and the validation reports.  An optional text is <<>> for None and      *)
(* <<t>> for the string t.  The file system is the environment: a file     *)
(* opens or fails with an error, a directory exists with its entries or    *)
(* does not, a CSV file parses to a table or fails.                        *)
(***************************************************************************)
\* What open() and read() of ./output.log do: error = "" is a readable file.
OutputFile(error, content) == [error |-> error, content |-> content]

OutputFiles ==
    {OutputFile("", c) : c \in {"", "Stack MyStack: 2 resources to add"}}
    \cup {OutputFile(e, "") :
              e \in {"FileNotFoundError", "PermissionError", "UnicodeDecodeError"}}

\* read_output_file returning None for every error.
ReadOutputFileNoneOnError(file) ==
    IF file.error = "" THEN [ret |-> "str", value |-> <<file.content>>]
    ELSE [ret |-> "None", value |-> <<>>]

\* read_output_file: the content; None for a missing file; any other error
\* is logged and raised again.
read_output_file(file) ==
    IF file.error = "" THEN [ret |-> "str", value |-> <<file.content>>]
    ELSE IF file.error = "FileNotFoundError" THEN [ret |-> "None", value |-> <<>>]
    ELSE [ret |-> file.error, value |-> <<>>]

\* "not output_content"
NoContent(output_content) == output_content = <<>> \/ output_content[1] = ""

\* add_cdk_diff_comment posting nothing when there is no content.
AddCdkDiffCommentSkipsEmpty(msg, output_content, resp) ==
    IF NoContent(output_content) THEN [ret |-> "True", reqs |-> <<>>]
    ELSE add_msg(msg, output_content[1], resp)

\* add_cdk_diff_comment: one comment, the fixed text when there is no content;
\* the result of add_msg is returned.
add_cdk_diff_comment(msg, output_content, resp) ==
    LET comment == IF NoContent(output_content)
                   THEN "CDK Diff found no resource is going to change"
                   ELSE output_content[1]
    IN  add_msg(msg, comment, resp)

\* A pandas DataFrame: column names and rows of cells; df.empty.
DataFrame(columns, rows) == [columns |-> columns, rows |-> rows]

Empty(df) == Len(df.columns) = 0 \/ Len(df.rows) = 0

\* The cells of one line of a markdown table.
RECURSIVE Cells(_)
Cells(row) == IF row = <<>> THEN "" ELSE " " \o Head(row) \o " |" \o Cells(Tail(row))

RECURSIVE MarkdownRows(_, _)
MarkdownRows(rows, i) ==
    IF i > Len(rows) THEN ""
    ELSE "\n|" \o Cells(<<ToString(i - 1)>> \o rows[i]) \o MarkdownRows(rows, i + 1)

\* df.to_markdown(): header line, separator line, one line per row, each
\* starting with the index.
ToMarkdown(df) ==
    "|" \o Cells(<<"">> \o df.columns)
    \o "\n|" \o Cells([c \in 1..(Len(df.columns) + 1) |-> "---"])
    \o MarkdownRows(df.rows, 1)

\* What pd.read_csv does with a file: error = "" is a parsed table.
Parsed(error, df) == [error |-> error, df |-> df]

ParseResults ==
    {Parsed("ParserError", DataFrame(<<>>, <<>>)),
     Parsed("", DataFrame(<<"rule", "status">>, <<>>)),
     Parsed("", DataFrame(<<"rule", "status">>,
                          <<<<"W1", "FAIL">>, <<"E2", "PASS">>>>))}

\* An entry of the templates directory: name (stem, suffix) and what parsing
\* it gives.
DirEntries ==
    {[name |-> <<"report", "csv">>, parse |-> r] : r \in ParseResults}
    \cup {[name |-> <<"template", "json">>,
            parse |-> Parsed("ParserError", DataFrame(<<>>, <<>>))]}

\* templates_path.exists() and the entries in the order glob yields them.
Directory(exists, entries) == [exists |-> exists, entries |-> entries]

Directories ==
    {Directory(FALSE, <<>>)}
    \cup UNION {{Directory(TRUE, es) : es \in [1..n -> DirEntries]} : n \in 0..MaxFiles}

\* templates_path.glob("*.csv")
Glob(entries) == SelectSeq(entries, LAMBDA e : e.name[2] = "csv")

\* The loop of add_validation_reports ending at the first file that fails.
RECURSIVE ReportLoopStopsOnError(_, _, _, _, _)
ReportLoopStopsOnError(msg, files, resps, i, reqs) ==
    IF i > Len(files) THEN reqs
    ELSE IF files[i].parse.error # "" THEN reqs
    ELSE IF Empty(files[i].parse.df)
    THEN ReportLoopStopsOnError(msg, files, resps, i + 1, reqs)
    ELSE LET post == add_msg(msg, ToMarkdown(files[i].parse.df), resps[i])
         IN  IF post.ret = "True"
             THEN ReportLoopStopsOnError(msg, files, resps, i + 1, reqs \o post.reqs)
             ELSE reqs \o post.reqs

\* The loop of add_validation_reports from file i on: a file that fails to
\* parse or parses to an empty table is passed over, every other table is
\* posted, and a refused post is logged only.  resps[i] answers the post of
\* file i.
RECURSIVE ReportLoop(_, _, _, _, _)
ReportLoop(msg, files, resps, i, reqs) ==
    IF i > Len(files) THEN reqs
    ELSE IF files[i].parse.error # "" THEN ReportLoop(msg, files, resps, i + 1, reqs)
    ELSE IF Empty(files[i].parse.df) THEN ReportLoop(msg, files, resps, i + 1, reqs)
    ELSE LET post == add_msg(msg, ToMarkdown(files[i].parse.df), resps[i])
         IN  ReportLoop(msg, files, resps, i + 1, reqs \o post.reqs)

\* add_validation_reports: nothing for an absent directory, else the loop over
\* the CSV files; returns None.
add_validation_reports(msg, dir, resps) ==
    IF ~dir.exists THEN [ret |-> "None", reqs |-> <<>>]
    ELSE [ret |-> "None", reqs |-> ReportLoop(msg, Glob(dir.entries), resps, 1, <<>>)]

(***************************************************************************)
(* Answers of the environment.  Where the code reads the status only, the  *)
(* body is not varied: InvalidBody stands for it.                          *)
(***************************************************************************)
\* Answers to the repository create POST.
CreateResponses == {Response(s, b) : s \in StatusCodes, b \in IdBodies}

\* Answers to the repository lookup GET; an error answer may still carry a
\* JSON object with an id.
LookupResponses ==
    {Response(200, b) : b \in IdBodies}
    \cup {Response(s, b) : s \in StatusCodes \ {200},
                           b \in {InvalidBody, Body(TRUE, 1, FALSE, <<>>)}}

\* Answers to the development and release pipeline POSTs: only the status is
\* read (for the log line).
StageResponses == {Response(s, InvalidBody) : s \in {200, 409}}

\* Answers to the pull-request pipeline POST: the body is read whatever the
\* status.
PullRequestResponses == {Response(s, b) : s \in {200, 409}, b \in IdBodies}

\* Answers to the policy POST: only the status is read.
PolicyResponses == {Response(s, InvalidBody) : s \in StatusCodes}

\* Answers to the pipeline listing GET, with listings from the given set; the
\* body is read on 200 only.
SearchResponses(lists) ==
    {Response(s, InvalidBody) : s \in StatusCodes \ {200}}
    \cup {Response(200, b) : b \in {InvalidBody, EmptyObject}}
    \cup {Response(200, Body(TRUE, None, TRUE, l)) : l \in lists}

\* Listings of at most one pipeline, which carries an id.
ShortLists == {<<>>} \cup {<<p>> : p \in {q \in Pipelines : q.id = 1}}

\* Exit of a git command.
Exits == {"ok", "fail"}

(***************************************************************************)
(* State.                                                                  *)
(***************************************************************************)
\* A mapping of configuration keys to values; {} is the empty one.
EmptyMapping == [k \in {} |-> ""]

\* No CDKConfig object has been constructed.
NoConfig == [constructed |-> FALSE, environment |-> "", data |-> EmptyMapping]

\* logging.NOTSET .. logging.CRITICAL, the numeric levels of the library.
logging == [NOTSET |-> 0, DEBUG |-> 10, INFO |-> 20, WARNING |-> 30,
            ERROR |-> 40, CRITICAL |-> 50]

LoggerNames == {"azure_pipelines", "azure_pipelines.setup_repo"}

\* A logger as logging.getLogger creates it: level NOTSET, no handler,
\* propagating.
NewLogger == [level |-> logging.NOTSET, handlers |-> <<>>, propagate |-> TRUE]

NoLoggers == [n \in LoggerNames |-> NewLogger]

\* A service that holds no repository: id is the id of the repository of
\* that name (None: there is none), created the number of times the service
\* has created one of that name.
NoRemote == [n \in RepoNames |-> [id |-> None, created |-> 0]]

\* The parent of a logger in the dotted hierarchy; the root logger, which
\* holds no handler, is "".
Parent(name) == IF name = "azure_pipelines.setup_repo" THEN "azure_pipelines" ELSE ""

\* logger.hasHandlers(): a handler on the logger or, as far as the loggers
\* propagate, on an ancestor.
RECURSIVE hasHandlers(_, _)
hasHandlers(lgs, name) ==
    IF name = "" THEN FALSE
    ELSE IF lgs[name].handlers # <<>> THEN TRUE
    ELSE IF ~lgs[name].propagate THEN FALSE
    ELSE hasHandlers(lgs, Parent(name))

\* configure_logging keeping the handlers the logger holds.
ConfigureLoggingKeepsHandlers(lgs, logger_name, log_level, console_output, file_output, propagate) ==
    LET kept == lgs[logger_name].handlers
    IN  [lgs EXCEPT ![logger_name] =
            [level |-> log_level,
             handlers |-> IF console_output THEN Append(kept, "StreamHandler")
                          ELSE kept,
             propagate |-> propagate]]

\* configure_logging: the registry after the call.  The handlers of the
\* logger are cleared, level and propagate are set, and a console handler is
\* added when asked for; file_output adds nothing.
configure_logging(lgs, logger_name, log_level, console_output, file_output, propagate) ==
    LET kept == IF hasHandlers(lgs, logger_name) THEN <<>>
                ELSE lgs[logger_name].handlers
    IN  [lgs EXCEPT ![logger_name] =
            [level |-> log_level,
             handlers |-> IF console_output THEN Append(kept, "StreamHandler")
                          ELSE kept,
             propagate |-> propagate]]

\* The names get_logger maps to levels.
log_level_map == [DEBUG |-> logging.DEBUG, INFO |-> logging.INFO,
                  WARNING |-> logging.WARNING, ERROR |-> logging.ERROR,
                  CRITICAL |-> logging.CRITICAL]

\* The level get_logger passes on: "log_level or log_level_map.get(env, INFO)".
\* log_level is <<>> for None and <<n>> for the number n; env is <<>> when
\* AZURE_PIPELINES_LOG_LEVEL is unset and <<v>> when it holds v.
effective_log_level(log_level, env) ==
    LET env_log_level == IF env = <<>> THEN "INFO" ELSE env[1]
    IN  IF log_level # <<>> /\ log_level[1] # 0 THEN log_level[1]
        ELSE IF env_log_level \in DOMAIN log_level_map
        THEN log_level_map[env_log_level]
        ELSE logging.INFO

\* get_logger: the registry after the call.
get_logger(lgs, name, log_level, env) ==
    configure_logging(lgs, name, effective_log_level(log_level, env), TRUE, FALSE,
                      FALSE)

Last(op, ret, reqs, cmds, resp, lookup, stages, search, exits) ==
    [op |-> op, ret |-> ret, reqs |-> reqs, cmds |-> cmds,
     pre_repository_id |-> new_repository_id,
     pre_pull_request_id |-> cicd_pull_request_id,
     resp |-> resp, lookup |-> lookup, stages |-> stages, search |-> search,
     exits |-> exits, arg |-> "", value |-> <<>>, pre_data |-> config.data]

\* The configuration files: keys, values and the mappings a file may hold.
Keys == {"AccountId", "AWSRegion"}

Values == {"947429061527", "eu-central-1"}

Mappings == UNION {[ks -> Values] : ks \in SUBSET Keys}

\* What open() and json.load() of config/<environment>.json do: error = ""
\* is a file that holds a JSON object.
ConfigFile(error, data) == [error |-> error, data |-> data]

ConfigFiles ==
    {ConfigFile("", m) : m \in Mappings}
    \cup {ConfigFile(e, EmptyMapping) : e \in {"FileNotFoundError", "JSONDecodeError"}}

\* CDKConfig.load_config emptying the data before it reads the file.
LoadConfigClearsFirst(cfg, file) ==
    IF file.error = "" THEN [ret |-> "dict", data |-> file.data]
    ELSE [ret |-> file.error, data |-> EmptyMapping]

\* CDKConfig.load_config: the data is assigned when the file is read and
\* parsed; otherwise the error is logged and raised again.
load_config(cfg, file) ==
    IF file.error = "" THEN [ret |-> "dict", data |-> file.data]
    ELSE [ret |-> file.error, data |-> cfg.data]

\* CDKConfig.get_value raising for an absent key without a default.
GetValueRaisesWithoutDefault(cfg, key, default) ==
    IF key \in DOMAIN cfg.data THEN [ret |-> "value", value |-> <<cfg.data[key]>>]
    ELSE IF default = <<>> THEN [ret |-> "KeyError", value |-> <<>>]
    ELSE [ret |-> "value", value |-> default]

\* CDKConfig.get_value: the value of the key, or the default (an optional
\* text, None when not given) for an absent key.
get_value(cfg, key, default) ==
    IF key \in DOMAIN cfg.data THEN [ret |-> "value", value |-> <<cfg.data[key]>>]
    ELSE [ret |-> "value", value |-> default]

NoStages == <<NoResponse, NoResponse, NoResponse>>

\* CreateAzureRepo.__init__ for a repository name of the given set: both ids
\* unset.
InitSession(names) ==
    /\ new_repo_name \in names
    /\ new_repository_id = None
    /\ cicd_pull_request_id = None
    /\ message = NoMessage
    /\ config = NoConfig
    /\ loggers = NoLoggers
    /\ remote = NoRemote
    /\ last = [op |-> "__init__", ret |-> "None", reqs |-> <<>>, cmds |-> <<>>,
               pre_repository_id |-> None, pre_pull_request_id |-> None,
               resp |-> NoResponse, lookup |-> NoResponse, stages |-> NoStages,
               search |-> NoResponse, exits |-> <<>>, arg |-> "",
               value |-> <<>>, pre_data |-> EmptyMapping]
    /\ pc = "create_azure_devops_repo"
    /\ calls = <<>>
    /\ http = <<>>

(***************************************************************************)
(* One call of each method on the session object.                          *)
(***************************************************************************)
Store(o) ==
    /\ new_repository_id' = o.new_repository_id
    /\ cicd_pull_request_id' = o.cicd_pull_request_id
    /\ UNCHANGED <<new_repo_name, message, config, loggers, remote>>

CallCreateRepo(o, resp, lookup) ==
    /\ Store(o)
    /\ last' = Last("create_azure_devops_repo", o.ret, o.reqs, <<>>,
                    resp, lookup, NoStages, NoResponse, <<>>)

CallCreatePipelines(o, stages, search) ==
    /\ Store(o)
    /\ last' = Last("create_pipelines", o.ret, o.reqs, <<>>,
                    NoResponse, NoResponse, stages, search, <<>>)

CallGitMigrate(g, exits) ==
    /\ UNCHANGED <<new_repo_name, new_repository_id, cicd_pull_request_id, message,
                   config, loggers, remote>>
    /\ last' = Last("git_migrate", g.ret, <<>>, g.cmds, NoResponse,
                    NoResponse, NoStages, NoResponse, exits)

CallCreatePolicy(o, resp) ==
    /\ Store(o)
    /\ last' = Last("create_pull_request_policy", o.ret, o.reqs, <<>>,
                    resp, NoResponse, NoStages, NoResponse, <<>>)

\* The answers one call of create_azure_devops_repo may get.
CreateAnswers ==
    {<<resp, lookup>> \in CreateResponses \X (LookupResponses \cup {NoResponse}) :
        (resp.status = 409) <=> (lookup # NoResponse)}

\* The answers one call of create_pipelines may get: none without a
\* repository id, the listing only when the pull-request answer has no id.
PipelineAnswers(repoId) ==
    IF Falsy(repoId) THEN {<<NoStages, NoResponse>>}
    ELSE {<<<<dev, pr, rel>>, search>> :
            dev \in StageResponses, pr \in PullRequestResponses,
            rel \in StageResponses,
            search \in SearchResponses(ShortLists) \cup {NoResponse}}

PipelineAnswersRead(repoId) ==
    {a \in PipelineAnswers(repoId) :
        Falsy(repoId) \/
        ((JsonIdOutcome(a[1][2].body) = "ok") <=> (a[2] = NoResponse))}

\* The exits one call of git_migrate may see: push runs only after set-url.
GitExits == {<<"fail">>, <<"ok", "fail">>, <<"ok", "ok">>}

GitMigrateOf(exits) ==
    git_migrate(exits[1], IF Len(exits) > 1 THEN exits[2] ELSE "ok")

\* The answers one call of create_pull_request_policy may get.
PolicyAnswers(repoId, prId) ==
    IF Falsy(prId) \/ Falsy(repoId) THEN {NoResponse} ELSE PolicyResponses

(***************************************************************************)
(* Spec: the methods called in any order on one session object.            *)
(***************************************************************************)
Init == InitSession({<<"demo">>})

AnyCreateRepo ==
    \E a \in CreateAnswers :
        /\ CallCreateRepo(create_azure_devops_repo(new_repo_name, new_repository_id,
                              cicd_pull_request_id, a[1], a[2]), a[1], a[2])
        /\ UNCHANGED <<pc, calls, http>>

AnyCreatePipelines ==
    \E a \in PipelineAnswersRead(new_repository_id) :
        /\ CallCreatePipelines(create_pipelines(new_repo_name, new_repository_id,
                                   cicd_pull_request_id, a[1], a[2]), a[1], a[2])
        /\ UNCHANGED <<pc, calls, http>>

AnyGitMigrate ==
    \E e \in GitExits :
        /\ CallGitMigrate(GitMigrateOf(e), e)
        /\ UNCHANGED <<pc, calls, http>>

AnyCreatePolicy ==
    \E resp \in PolicyAnswers(new_repository_id, cicd_pull_request_id) :
        /\ CallCreatePolicy(create_pull_request_policy(new_repo_name,
                                new_repository_id, cicd_pull_request_id, resp), resp)
        /\ UNCHANGED <<pc, calls, http>>

Next == AnyCreateRepo \/ AnyCreatePipelines \/ AnyGitMigrate \/ AnyCreatePolicy

Spec == Init /\ [][Next]_vars

(***************************************************************************)
(* MainSpec: one run of main(), the provisioning workflow.  pc names the   *)
(* call main() is about to make; calls records every call made with its    *)
(* result, http every request sent.                                        *)
(***************************************************************************)
MainInit == InitSession(RepoNames)

Called(op, ret, ok, cmds) == [op |-> op, ret |-> ret, ok |-> ok, cmds |-> cmds]

\* What the log of create_pipelines reports: every stage answered 200.
StagesSucceeded(stages) == \A i \in 1..Len(stages) : stages[i].status = 200

\* main() going on to the pipelines whatever create_azure_devops_repo returned.
MainCreateRepoUngated ==
    /\ pc = "create_azure_devops_repo"
    /\ \E a \in CreateAnswers :
        LET o == create_azure_devops_repo(new_repo_name, new_repository_id,
                                          cicd_pull_request_id, a[1], a[2])
        IN  /\ CallCreateRepo(o, a[1], a[2])
            /\ calls' = Append(calls, Called("create_azure_devops_repo", o.ret,
                                             o.ret = "True", <<>>))
            /\ http' = http \o o.reqs
            /\ pc' = IF o.ret \in {"True", "False"} THEN "create_pipelines"
                     ELSE "raised"

\* if repo.create_azure_devops_repo(): ... else: logger.error(... "Aborting.")
MainCreateRepo ==
    /\ pc = "create_azure_devops_repo"
    /\ \E a \in CreateAnswers :
        LET o == create_azure_devops_repo(new_repo_name, new_repository_id,
                                          cicd_pull_request_id, a[1], a[2])
        IN  /\ CallCreateRepo(o, a[1], a[2])
            /\ calls' = Append(calls, Called("create_azure_devops_repo", o.ret,
                                             o.ret = "True", <<>>))
            /\ http' = http \o o.reqs
            /\ pc' = IF o.ret = "True" THEN "create_pipelines"
                     ELSE IF o.ret = "False" THEN "aborted"
                     ELSE "raised"

\* main() ending the run when a pipeline stage was not answered 200.
MainCreatePipelinesGated ==
    /\ pc = "create_pipelines"
    /\ \E a \in PipelineAnswersRead(new_repository_id) :
        LET o == create_pipelines(new_repo_name, new_repository_id,
                                  cicd_pull_request_id, a[1], a[2])
        IN  /\ CallCreatePipelines(o, a[1], a[2])
            /\ calls' = Append(calls, Called("create_pipelines", o.ret,
                                             o.reqs # <<>> /\ StagesSucceeded(a[1]),
                                             <<>>))
            /\ http' = http \o o.reqs
            /\ pc' = IF StagesSucceeded(a[1]) THEN "git_migrate" ELSE "done"

\* repo.create_pipelines()
MainCreatePipelines ==
    /\ pc = "create_pipelines"
    /\ \E a \in PipelineAnswersRead(new_repository_id) :
        LET o == create_pipelines(new_repo_name, new_repository_id,
                                  cicd_pull_request_id, a[1], a[2])
        IN  /\ CallCreatePipelines(o, a[1], a[2])
            /\ calls' = Append(calls, Called("create_pipelines", o.ret,
                                             o.reqs # <<>> /\ StagesSucceeded(a[1]),
                                             <<>>))
            /\ http' = http \o o.reqs
            /\ pc' = "git_migrate"

\* main() ending the run when git_migrate returned False.
MainGitMigrateGated ==
    /\ pc = "git_migrate"
    /\ \E e \in GitExits :
        LET g == GitMigrateOf(e)
        IN  /\ CallGitMigrate(g, e)
            /\ calls' = Append(calls, Called("git_migrate", g.ret, g.ret = "True",
                                             g.cmds))
            /\ UNCHANGED http
            /\ pc' = IF g.ret = "True" THEN "create_pull_request_policy" ELSE "done"

\* repo.git_migrate()
MainGitMigrate ==
    /\ pc = "git_migrate"
    /\ \E e \in GitExits :
        LET g == GitMigrateOf(e)
        IN  /\ CallGitMigrate(g, e)
            /\ calls' = Append(calls, Called("git_migrate", g.ret, g.ret = "True",
                                             g.cmds))
            /\ UNCHANGED http
            /\ pc' = "create_pull_request_policy"

\* repo.create_pull_request_policy()
MainCreatePolicy ==
    /\ pc = "create_pull_request_policy"
    /\ \E resp \in PolicyAnswers(new_repository_id, cicd_pull_request_id) :
        LET o == create_pull_request_policy(new_repo_name, new_repository_id,
                                            cicd_pull_request_id, resp)
        IN  /\ CallCreatePolicy(o, resp)
            /\ calls' = Append(calls, Called("create_pull_request_policy", o.ret,
                                             o.ret = "True", <<>>))
            /\ http' = http \o o.reqs
            /\ pc' = "done"

MainNext == MainCreateRepo \/ MainCreatePipelines \/ MainGitMigrate \/ MainCreatePolicy

MainSpec == MainInit /\ [][MainNext]_vars

(***************************************************************************)
(* HandleSpec: _handle_pull_request_pipeline applied once to every         *)
(* creation answer and every listing of the source project.                *)
(***************************************************************************)
HandleInit ==
    /\ new_repo_name \in RepoNames
    /\ new_repository_id = 1
    /\ cicd_pull_request_id \in Ids \cup {None}
    /\ message = NoMessage
    /\ config = NoConfig
    /\ loggers = NoLoggers
    /\ remote = NoRemote
    /\ \E response \in PullRequestResponses :
        \E search \in IF JsonIdOutcome(response.body) = "ok" THEN {NoResponse}
                      ELSE SearchResponses(PipelineLists) :
            last = [op |-> "create_pipelines", ret |-> "None", reqs |-> <<>>,
                    cmds |-> <<>>, pre_repository_id |-> new_repository_id,
                    pre_pull_request_id |-> cicd_pull_request_id,
                    resp |-> response, lookup |-> NoResponse, stages |-> NoStages,
                    search |-> search, exits |-> <<>>, arg |-> "",
               value |-> <<>>, pre_data |-> EmptyMapping]
    /\ pc = "_handle_pull_request_pipeline"
    /\ calls = <<>>
    /\ http = <<>>

HandlePullRequestPipeline ==
    /\ pc = "_handle_pull_request_pipeline"
    /\ LET o == _handle_pull_request_pipeline(new_repo_name, new_repository_id,
                    cicd_pull_request_id, last.resp, last.search)
       IN  /\ Store(o)
           /\ last' = Last("_handle_pull_request_pipeline", o.ret, o.reqs, <<>>,
                           last.resp, NoResponse, NoStages, last.search, <<>>)
           /\ http' = o.reqs
    /\ pc' = "done"
    /\ UNCHANGED calls

HandleNext == HandlePullRequestPipeline

HandleSpec == HandleInit /\ [][HandleNext]_vars

(***************************************************************************)
(* MessageSpec: a Message object built from the environment, then any      *)
(* sequence of add_msg and upload_attachment_and_comment calls.            *)
(***************************************************************************)
Comments == {"", "hello", "Test comment"}

\* Paths given to upload_attachment_and_comment, and those that are files.
Paths == {"diagram.png", "nonexistent.png"}

Files == {"diagram.png"}

\* Answers to a comment POST: only the status is read.
CommentResponses == {Response(s, InvalidBody) : s \in StatusCodes}

\* Answers to the upload POST: the body is read on 201 only.
UploadResponses ==
    {Response(201, UploadBody(FALSE, "None")),
     Response(201, UploadBody(TRUE, "None")),
     Response(201, UploadBody(TRUE, "https://attachment-url"))}
    \cup {Response(s, UploadBody(FALSE, "None")) : s \in StatusCodes \ {201}}

MessageInit ==
    /\ new_repo_name = <<"demo">>
    /\ new_repository_id = None
    /\ cicd_pull_request_id = None
    /\ message \in {MessageOf(env) : env \in Environments}
    /\ config = NoConfig
    /\ loggers = NoLoggers
    /\ remote = NoRemote
    /\ last = [op |-> "__init__", ret |-> "None", reqs |-> <<>>, cmds |-> <<>>,
               pre_repository_id |-> None, pre_pull_request_id |-> None,
               resp |-> NoResponse, lookup |-> NoResponse, stages |-> NoStages,
               search |-> NoResponse, exits |-> <<>>, arg |-> "",
               value |-> <<>>, pre_data |-> EmptyMapping]
    /\ pc = "message"
    /\ calls = <<>>
    /\ http = <<>>

MessageCall(op, arg, o, resp, followups) ==
    /\ last' = [Last(op, o.ret, o.reqs, <<>>, resp, NoResponse, followups,
                     NoResponse, <<>>) EXCEPT !.arg = arg]
    /\ UNCHANGED <<new_repo_name, new_repository_id, cicd_pull_request_id, message,
                   pc, calls, http, config, loggers, remote>>

AddMsg ==
    \E comment \in Comments, resp \in CommentResponses :
        MessageCall("add_msg", comment, add_msg(message, comment, resp), resp,
                    NoStages)

UploadAttachmentAndComment ==
    \E path \in Paths :
        \E resp \in IF path \in Files THEN UploadResponses ELSE {NoResponse} :
            \E first, second \in IF path \in Files /\ resp.status = 201 /\ resp.body.json
                                 THEN CommentResponses ELSE {NoResponse} :
                MessageCall("upload_attachment_and_comment", path,
                            upload_attachment_and_comment(message, path \in Files,
                                                          resp, first, second),
                            resp, <<first, second>>)

MessageNext == AddMsg \/ UploadAttachmentAndComment

MessageSpec == MessageInit /\ [][MessageNext]_vars

(***************************************************************************)
(* CommentSpec: the functions of comment.py, called in any order with a    *)
(* Message object built from the pipeline variables of one build.          *)
(***************************************************************************)
\* The pipeline variables of one pull-request build.
CommentEnvironment ==
    [SYSTEM_ACCESSTOKEN |-> "secret",
     SYSTEM_COLLECTIONURI |-> "https://dev.azure.com/",
     SYSTEM_PULLREQUEST_PULLREQUESTID |-> "22",
     SYSTEM_TEAMPROJECT |-> "fabrikam",
     BUILD_REPOSITORY_ID |-> "abc",
     BUILD_SOURCEVERSION |-> <<"a", "h", "k", "j", "s", "2", "1">>]

\* The output_content arguments: None, the empty text, a diff.
Contents == {<<>>, <<"">>, <<"Stack MyStack: 2 resources to add">>}

\* Answers to the post of a report: only the status is read.
ReportResponses == {Response(s, InvalidBody) : s \in {200, 500}}

\* One answer for each CSV file: for those that are posted an answer of the
\* service, for the others none.
ReportAnswers(files) ==
    {resps \in [1..Len(files) -> ReportResponses \cup {NoResponse}] :
        \A i \in 1..Len(files) :
            resps[i] = NoResponse
                <=> (files[i].parse.error # "" \/ Empty(files[i].parse.df))}

CommentInit ==
    /\ new_repo_name = <<"demo">>
    /\ new_repository_id = None
    /\ cicd_pull_request_id = None
    /\ message = MessageOf(CommentEnvironment)
    /\ config = NoConfig
    /\ loggers = NoLoggers
    /\ remote = NoRemote
    /\ last = [op |-> "__init__", ret |-> "None", reqs |-> <<>>, cmds |-> <<>>,
               pre_repository_id |-> None, pre_pull_request_id |-> None,
               resp |-> NoResponse, lookup |-> NoResponse, stages |-> NoStages,
               search |-> NoResponse, exits |-> <<>>, arg |-> "",
               value |-> <<>>, pre_data |-> EmptyMapping]
    /\ pc = "read_output_file"
    /\ calls = <<>>
    /\ http = <<>>

\* A call of a function of comment.py: resp is what the file system gave
\* (the file, the directory), answers the answers of the service, value the
\* optional text returned or given.
CommentCall(op, o, resp, answers, value) ==
    /\ last' = [Last(op, o.ret, o.reqs, <<>>, resp, NoResponse, answers,
                     NoResponse, <<>>) EXCEPT !.value = value]
    /\ UNCHANGED <<new_repo_name, new_repository_id, cicd_pull_request_id, message,
                   config, loggers, remote>>

ReadOutputFile ==
    \E file \in OutputFiles :
        LET o == read_output_file(file)
        IN  /\ CommentCall("read_output_file", [ret |-> o.ret, reqs |-> <<>>],
                           file, <<>>, o.value)
            /\ UNCHANGED <<pc, calls, http>>

AddCdkDiffComment ==
    \E output_content \in Contents, resp \in CommentResponses :
        /\ CommentCall("add_cdk_diff_comment",
                       add_cdk_diff_comment(message, output_content, resp),
                       NoResponse, <<resp>>, output_content)
        /\ UNCHANGED <<pc, calls, http>>

AddValidationReports ==
    \E dir \in Directories :
        \E resps \in ReportAnswers(Glob(dir.entries)) :
            /\ CommentCall("add_validation_reports",
                           add_validation_reports(message, dir, resps),
                           dir, resps, <<>>)
            /\ UNCHANGED <<pc, calls, http>>

CommentNext == ReadOutputFile \/ AddCdkDiffComment \/ AddValidationReports

CommentSpec == CommentInit /\ [][CommentNext]_vars

(***************************************************************************)
(* CommentMainSpec: one run of comment.main(), step by step.  A step that  *)
(* raises ends the run (pc = "raised").                                    *)
(***************************************************************************)
\* main() leaving out the reports after a refused diff comment.
CommentMainAddCdkDiffCommentGated ==
    /\ pc = "add_cdk_diff_comment"
    /\ last.op = "read_output_file"
    /\ \E resp \in CommentResponses :
        LET o == add_cdk_diff_comment(message, last.value, resp)
        IN  /\ CommentCall("add_cdk_diff_comment", o, NoResponse, <<resp>>,
                           last.value)
            /\ calls' = Append(calls, Called("add_cdk_diff_comment", o.ret,
                                             o.ret = "True", <<>>))
            /\ http' = http \o o.reqs
            /\ pc' = IF o.ret = "True" THEN "add_validation_reports" ELSE "done"

CommentMainReadOutputFile ==
    /\ pc = "read_output_file"
    /\ \E file \in OutputFiles :
        LET o == read_output_file(file)
        IN  /\ CommentCall("read_output_file", [ret |-> o.ret, reqs |-> <<>>],
                           file, <<>>, o.value)
            /\ calls' = Append(calls, Called("read_output_file", o.ret,
                                             o.ret \in {"str", "None"}, <<>>))
            /\ pc' = IF o.ret \in {"str", "None"} THEN "add_cdk_diff_comment"
                     ELSE "raised"
    /\ UNCHANGED http

CommentMainAddCdkDiffComment ==
    /\ pc = "add_cdk_diff_comment"
    /\ last.op = "read_output_file"
    /\ \E resp \in CommentResponses :
        LET o == add_cdk_diff_comment(message, last.value, resp)
        IN  /\ CommentCall("add_cdk_diff_comment", o, NoResponse, <<resp>>,
                           last.value)
            /\ calls' = Append(calls, Called("add_cdk_diff_comment", o.ret,
                                             o.ret = "True", <<>>))
            /\ http' = http \o o.reqs
            /\ pc' = "add_validation_reports"

CommentMainAddValidationReports ==
    /\ pc = "add_validation_reports"
    /\ \E dir \in Directories :
        \E resps \in ReportAnswers(Glob(dir.entries)) :
            LET o == add_validation_reports(message, dir, resps)
            IN  /\ CommentCall("add_validation_reports", o, dir, resps, <<>>)
                /\ calls' = Append(calls, Called("add_validation_reports", o.ret,
                                                 TRUE, <<>>))
                /\ http' = http \o o.reqs
                /\ pc' = "done"

CommentMainNext ==
    \/ CommentMainReadOutputFile
    \/ CommentMainAddCdkDiffComment
    \/ CommentMainAddValidationReports

CommentMainSpec == CommentInit /\ [][CommentMainNext]_vars

(***************************************************************************)
(* ConfigSpec: CDKConfig objects are constructed, reloaded and read; the   *)
(* configuration file is what the file system holds at each load.          *)
(***************************************************************************)
EnvironmentNames == {"developer", "production"}

\* The keys asked for and the defaults given (<<>>: no default).
AskedKeys == Keys \cup {"NonExistentKey"}

Defaults == {<<>>, <<"default">>}

ConfigInit ==
    /\ new_repo_name = <<"demo">>
    /\ new_repository_id = None
    /\ cicd_pull_request_id = None
    /\ message = NoMessage
    /\ config = NoConfig
    /\ loggers = NoLoggers
    /\ remote = NoRemote
    /\ last = [op |-> "__init__", ret |-> "None", reqs |-> <<>>, cmds |-> <<>>,
               pre_repository_id |-> None, pre_pull_request_id |-> None,
               resp |-> NoResponse, lookup |-> NoResponse, stages |-> NoStages,
               search |-> NoResponse, exits |-> <<>>, arg |-> "",
               value |-> <<>>, pre_data |-> EmptyMapping]
    /\ pc = "config"
    /\ calls = <<>>
    /\ http = <<>>

\* A call on the configuration: file is what the file system gave, arg the
\* environment or the key, value the value returned.
ConfigCall(op, arg, ret, file, value) ==
    /\ last' = [Last(op, ret, <<>>, <<>>, file, NoResponse, NoStages,
                     NoResponse, <<>>) EXCEPT !.arg = arg, !.value = value]
    /\ UNCHANGED <<new_repo_name, new_repository_id, cicd_pull_request_id, message,
                   pc, calls, http, loggers, remote>>

\* cfg = CDKConfig(environment): __init__ sets the data to {} and loads; when
\* the load raises no object is bound.
NewCDKConfig ==
    \E environment \in EnvironmentNames, file \in ConfigFiles :
        LET fresh == [constructed |-> TRUE, environment |-> environment,
                      data |-> EmptyMapping]
            o == load_config(fresh, file)
        IN  /\ config' = IF o.ret = "dict" THEN [fresh EXCEPT !.data = o.data]
                         ELSE config
            /\ ConfigCall("CDKConfig", environment, o.ret, file, <<>>)

LoadConfig ==
    /\ config.constructed
    /\ \E file \in ConfigFiles :
        LET o == load_config(config, file)
        IN  /\ config' = [config EXCEPT !.data = o.data]
            /\ ConfigCall("load_config", config.environment, o.ret, file, <<>>)

GetValue ==
    /\ config.constructed
    /\ \E key \in AskedKeys, default \in Defaults :
        LET o == get_value(config, key, default)
        IN  /\ UNCHANGED config
            /\ ConfigCall("get_value", key, o.ret, ConfigFile("", EmptyMapping),
                          <<o.value, default>>)

ConfigNext == NewCDKConfig \/ LoadConfig \/ GetValue

ConfigSpec == ConfigInit /\ [][ConfigNext]_vars

(***************************************************************************)
(* LoggerSpec: the logging registry after the import of logging_config,    *)
(* then any sequence of get_logger and configure_logging calls.            *)
(***************************************************************************)
\* AZURE_PIPELINES_LOG_LEVEL: unset, the name of a level, another text.
LogLevelVariables == {<<>>, <<"DEBUG">>, <<"ERROR">>, <<"TRACE">>}

\* The log_level arguments of get_logger: None or a level of the library.
LogLevelArguments ==
    {<<>>, <<logging.NOTSET>>, <<logging.DEBUG>>, <<logging.WARNING>>}

LoggerInit ==
    /\ new_repo_name = <<"demo">>
    /\ new_repository_id = None
    /\ cicd_pull_request_id = None
    /\ message = NoMessage
    /\ config = NoConfig
    /\ \E env \in LogLevelVariables :
        loggers = get_logger(NoLoggers, "azure_pipelines", <<>>, env)
    /\ remote = NoRemote
    /\ last = [op |-> "__init__", ret |-> "None", reqs |-> <<>>, cmds |-> <<>>,
               pre_repository_id |-> None, pre_pull_request_id |-> None,
               resp |-> NoResponse, lookup |-> NoResponse, stages |-> NoStages,
               search |-> NoResponse, exits |-> <<>>, arg |-> "",
               value |-> <<>>, pre_data |-> EmptyMapping]
    /\ pc = "logging"
    /\ calls = <<>>
    /\ http = <<>>

\* A call on the registry: arg is the logger name, value the other arguments
\* and then the handlers the logger holds when the call is made.
LoggerCall(op, name, value) ==
    /\ last' = [Last(op, "Logger", <<>>, <<>>, NoResponse, NoResponse, NoStages,
                     NoResponse, <<>>) EXCEPT !.arg = name, !.value = value]
    /\ UNCHANGED <<new_repo_name, new_repository_id, cicd_pull_request_id, message,
                   pc, calls, http, config, remote>>

GetLogger ==
    \E name \in LoggerNames, log_level \in LogLevelArguments,
       env \in LogLevelVariables :
        /\ loggers' = get_logger(loggers, name, log_level, env)
        /\ LoggerCall("get_logger", name, <<log_level, env, loggers[name].handlers>>)

ConfigureLogging ==
    \E name \in LoggerNames, log_level \in {logging.INFO, logging.ERROR},
       console_output \in BOOLEAN, file_output \in BOOLEAN :
        /\ loggers' = configure_logging(loggers, name, log_level, console_output,
                                        file_output, FALSE)
        /\ LoggerCall("configure_logging", name,
                      <<log_level, console_output, file_output,
                        loggers[name].handlers>>)

LoggerNext == GetLogger \/ ConfigureLogging

LoggerSpec == LoggerInit /\ [][LoggerNext]_vars

(***************************************************************************)
(* RemoteSpec: a session object and a Message object, and every method of  *)
(* either that calls the service, in any order.                            *)
(***************************************************************************)
RemoteInit ==
    /\ new_repo_name = <<"demo">>
    /\ new_repository_id = None
    /\ cicd_pull_request_id = None
    /\ message = MessageOf(CommentEnvironment)
    /\ config = NoConfig
    /\ loggers = NoLoggers
    /\ remote = NoRemote
    /\ last = [op |-> "__init__", ret |-> "None", reqs |-> <<>>, cmds |-> <<>>,
               pre_repository_id |-> None, pre_pull_request_id |-> None,
               resp |-> NoResponse, lookup |-> NoResponse, stages |-> NoStages,
               search |-> NoResponse, exits |-> <<>>, arg |-> "",
               value |-> <<>>, pre_data |-> EmptyMapping]
    /\ pc = "remote"
    /\ calls = <<>>
    /\ http = <<>>

RemoteNext ==
    \/ AnyCreateRepo
    \/ AnyCreatePipelines
    \/ AnyCreatePolicy
    \/ AddMsg
    \/ UploadAttachmentAndComment

RemoteSpec == RemoteInit /\ [][RemoteNext]_vars

(***************************************************************************)
(* PipelinesSpec: create_pipelines applied once to a session that holds a  *)
(* repository id, with any answer, body included, to each of the three     *)
(* stages.                                                                 *)
(***************************************************************************)
\* Answers to a pipeline POST of any stage, each with any body.
AnyStageResponses == {Response(s, b) : s \in {200, 409}, b \in IdBodies}

PipelinesInit ==
    /\ new_repo_name = <<"demo">>
    /\ new_repository_id = 1
    /\ cicd_pull_request_id \in Ids \cup {None}
    /\ message = NoMessage
    /\ config = NoConfig
    /\ loggers = NoLoggers
    /\ remote = NoRemote
    /\ last = [op |-> "__init__", ret |-> "None", reqs |-> <<>>, cmds |-> <<>>,
               pre_repository_id |-> None, pre_pull_request_id |-> None,
               resp |-> NoResponse, lookup |-> NoResponse, stages |-> NoStages,
               search |-> NoResponse, exits |-> <<>>, arg |-> "",
               value |-> <<>>, pre_data |-> EmptyMapping]
    /\ pc = "create_pipelines"
    /\ calls = <<>>
    /\ http = <<>>

CreatePipelinesOnce ==
    /\ pc = "create_pipelines"
    /\ \E dev, pr, rel \in AnyStageResponses :
        \E search \in IF JsonIdOutcome(pr.body) = "ok" THEN {NoResponse}
                      ELSE SearchResponses(ShortLists) :
            LET o == create_pipelines(new_repo_name, new_repository_id,
                                      cicd_pull_request_id, <<dev, pr, rel>>, search)
            IN  /\ CallCreatePipelines(o, <<dev, pr, rel>>, search)
                /\ http' = o.reqs
    /\ pc' = "done"
    /\ UNCHANGED calls

PipelinesNext == CreatePipelinesOnce

PipelinesSpec == PipelinesInit /\ [][PipelinesNext]_vars

(***************************************************************************)
(* KeepingRemoteSpec: the script is run again and again, each run with a   *)
(* new session object, against a service that keeps every repository it    *)
(* has created: it answers the create POST 201 with the id it gives the    *)
(* new repository, or 409 when it holds one of that name, and the lookup   *)
(* GET 200 with the id it holds.                                           *)
(***************************************************************************)
ServiceCreate(rem, name, id) ==
    IF rem[name].id = None
    THEN [resp |-> Response(201, Body(TRUE, id, FALSE, <<>>)),
          remote |-> [rem EXCEPT ![name] = [id |-> id, created |-> @.created + 1]]]
    ELSE [resp |-> Response(409, InvalidBody), remote |-> rem]

ServiceLookup(rem, name) ==
    IF rem[name].id = None THEN Response(500, InvalidBody)
    ELSE Response(200, Body(TRUE, rem[name].id, FALSE, <<>>))

\* CreateAzureRepo(pa_token, new_repo_name): a new session, both ids unset.
NewSession ==
    /\ \E name \in RepoNames : new_repo_name' = name
    /\ new_repository_id' = None
    /\ cicd_pull_request_id' = None
    /\ last' = [Last("__init__", "None", <<>>, <<>>, NoResponse, NoResponse,
                     NoStages, NoResponse, <<>>)
                EXCEPT !.pre_repository_id = None, !.pre_pull_request_id = None]
    /\ UNCHANGED <<message, pc, calls, http, config, loggers, remote>>

\* create_azure_devops_repo answered by the keeping service.
KeptCreateRepo ==
    \E id \in Ids :
        LET created == ServiceCreate(remote, new_repo_name, id)
            lookup == IF created.resp.status = 409
                      THEN ServiceLookup(created.remote, new_repo_name)
                      ELSE NoResponse
            o == create_azure_devops_repo(new_repo_name, new_repository_id,
                                          cicd_pull_request_id, created.resp, lookup)
        IN  /\ new_repository_id' = o.new_repository_id
            /\ cicd_pull_request_id' = o.cicd_pull_request_id
            /\ last' = Last("create_azure_devops_repo", o.ret, o.reqs, <<>>,
                            created.resp, lookup, NoStages, NoResponse, <<>>)
            /\ remote' = created.remote
            /\ UNCHANGED <<new_repo_name, message, pc, calls, http, config, loggers>>

KeepingRemoteNext == NewSession \/ KeptCreateRepo \/ AnyGitMigrate

KeepingRemoteInit == InitSession(RepoNames)

KeepingRemoteSpec == KeepingRemoteInit /\ [][KeepingRemoteNext]_vars

(***************************************************************************)
(* Properties.                                                             *)
(***************************************************************************)
\* The pipeline-creation POSTs among the requests of the last call.
PipelinePosts(reqs) ==
    SelectSeq(reqs, LAMBDA r : r.method = "POST" /\ r.api = "pipelines")

\* C1: create_azure_devops_repo: after a create POST answered 201 with a body
\* that holds an id, that id is the stored repository id and the result is
\* True; after any status other than 201 and 409 the result is False, the
\* create POST is the only request and the stored id is what it was.
C1_CreateRepoStatus ==
    last.op = "create_azure_devops_repo" =>
        /\ (last.resp.status = 201 /\ last.resp.body.json /\ last.resp.body.id # None)
            => /\ new_repository_id = last.resp.body.id
               /\ last.ret = "True"
        /\ last.resp.status \notin {201, 409}
            => /\ last.ret = "False"
               /\ Len(last.reqs) = 1
               /\ last.reqs[1].method = "POST"
               /\ new_repository_id = last.pre_repository_id

\* A failed create (status 500) on a session that already holds an id.
C1_Witness ==
    /\ last.op = "create_azure_devops_repo"
    /\ last.resp.status = 500
    /\ last.ret = "False"
    /\ last.pre_repository_id # None
    /\ new_repository_id = last.pre_repository_id

\* C2: create_azure_devops_repo: after a create POST answered 409 exactly one
\* GET of the repository by name follows; the result is True with the found
\* id stored iff the GET is answered 200 with a body that holds an id, and
\* otherwise the result is False and the stored id is what it was.
C2_ExistingRepoLookup ==
    (last.op = "create_azure_devops_repo" /\ last.resp.status = 409) =>
        /\ Len(last.reqs) = 2
        /\ last.reqs[1].method = "POST"
        /\ last.reqs[2].method = "GET"
        /\ last.reqs[2].api = "git/repositories/{name}"
        /\ last.reqs[2].name = new_repo_name
        /\ last.ret \in {"True", "False"}
        /\ last.ret = "True" <=>
               /\ last.lookup.status = 200
               /\ last.lookup.body.json
               /\ last.lookup.body.id # None
        /\ last.ret = "True" => new_repository_id = last.lookup.body.id
        /\ last.ret = "False" => new_repository_id = last.pre_repository_id

\* A lookup that finds an id other than the one stored before.
C2_Witness ==
    /\ last.op = "create_azure_devops_repo"
    /\ last.resp.status = 409
    /\ last.lookup.status = 200
    /\ last.ret = "True"
    /\ new_repository_id = 2
    /\ last.pre_repository_id = 1

\* C3: in a run of main(), once create_azure_devops_repo has returned False
\* no other method is invoked: the run has aborted, no pipeline or policy
\* request is sent and no git command is run.
C3_AbortOnRepoFailure ==
    (Len(calls) >= 1 /\ calls[1].ret = "False") =>
        /\ Len(calls) = 1
        /\ pc = "aborted"
        /\ \A i \in 1..Len(http) :
               http[i].api \notin {"pipelines", "policy/configurations"}
        /\ \A i \in 1..Len(calls) : calls[i].cmds = <<>>

\* A run aborted after a failed lookup of an existing repository.
C3_Witness ==
    /\ pc = "aborted"
    /\ Len(calls) = 1
    /\ calls[1].ret = "False"
    /\ Len(http) = 2

\* The calls of a complete run of main(), in order.
WorkflowOrder ==
    <<"create_azure_devops_repo", "create_pipelines", "git_migrate",
      "create_pull_request_policy">>

\* C4: in a run of main(), once create_azure_devops_repo has returned True
\* the calls made are the workflow order up to the current position, the
\* next call is the next of that order, and the finished run has made each
\* of create_pipelines, git_migrate and create_pull_request_policy once.
C4_AllStagesInOrder ==
    (Len(calls) >= 1 /\ calls[1].ret = "True") =>
        /\ Len(calls) <= 4
        /\ \A i \in 1..Len(calls) : calls[i].op = WorkflowOrder[i]
        /\ pc = IF Len(calls) = 4 THEN "done" ELSE WorkflowOrder[Len(calls) + 1]

\* A finished run in which the pipelines and the migration both failed.
C4_Witness ==
    /\ pc = "done"
    /\ Len(calls) = 4
    /\ calls[1].ret = "True"
    /\ ~calls[2].ok
    /\ calls[3].ret = "False"
    /\ calls[4].op = "create_pull_request_policy"

\* C5 as stated: every stage executed in a run follows a stage that
\* succeeded in that run.
C5_EachStageGated ==
    \A i \in 2..Len(calls) : calls[i - 1].ok

\* C5: only the first stage is a gate: a later stage is executed only in a
\* run whose create-or-find stage succeeded, the stages run in the workflow
\* order, each later stage runs whatever the outcome of the stage before it,
\* and a policy request is sent only with both ids stored.
C5_FirstStageGates ==
    /\ \A i \in 1..Len(calls) : i <= 4 /\ calls[i].op = WorkflowOrder[i]
    /\ Len(calls) >= 2 => calls[1].ok
    /\ (Len(calls) \in 2..3) => pc = WorkflowOrder[Len(calls) + 1]
    /\ \A i \in 1..Len(http) :
           http[i].api = "policy/configurations"
               => new_repository_id # None /\ cicd_pull_request_id # None

\* The policy request sent in a run whose git migration failed.
C5_Witness ==
    /\ pc = "done"
    /\ Len(calls) = 4
    /\ calls[3].ret = "False"
    /\ \E i \in 1..Len(http) : http[i].api = "policy/configurations"

\* C6: create_pipelines called with no repository id stored sends no request
\* and leaves both stored ids as they were; no pipeline-creation request
\* carries a missing repository id, in whatever order the methods are called.
C6_NoPipelineWithoutRepo ==
    /\ (last.op = "create_pipelines" /\ last.pre_repository_id = None) =>
           /\ last.reqs = <<>>
           /\ new_repository_id = None
           /\ cicd_pull_request_id = last.pre_pull_request_id
    /\ \A i \in 1..Len(last.reqs) :
           (last.reqs[i].method = "POST" /\ last.reqs[i].api = "pipelines")
               => last.reqs[i].repositoryId \in Ids

\* create_pipelines called on a session without repository id.
C6_Witness ==
    /\ last.op = "create_pipelines"
    /\ last.pre_repository_id = None
    /\ last.reqs = <<>>

\* C7: create_pull_request_policy returns False and sends no request when
\* the pull-request-pipeline id or the repository id is missing; it sends a
\* request only with both ids stored.
C7_PolicyNeedsBothIds ==
    last.op = "create_pull_request_policy" =>
        /\ (last.pre_pull_request_id = None \/ last.pre_repository_id = None)
               => last.ret = "False" /\ last.reqs = <<>>
        /\ last.reqs # <<>>
               => /\ last.pre_pull_request_id \in Ids
                  /\ last.pre_repository_id \in Ids
                  /\ last.reqs[1].repositoryId = last.pre_repository_id
                  /\ last.reqs[1].buildDefinitionId = last.pre_pull_request_id

\* The policy asked for with a repository id but no pull-request-pipeline id.
C7_Witness ==
    /\ last.op = "create_pull_request_policy"
    /\ last.pre_repository_id # None
    /\ last.pre_pull_request_id = None
    /\ last.ret = "False"
    /\ last.reqs = <<>>

\* C8: create_pipelines with a repository id stored sends exactly three
\* pipeline-creation POSTs, for development, pull-request and release in
\* that order, with path /azure-pipelines.yml for development and
\* /azure-pipelines-{stage}.yml for the two others, whatever the answers.
C8_ThreePipelinePosts ==
    (last.op = "create_pipelines" /\ last.pre_repository_id # None) =>
        LET posts == PipelinePosts(last.reqs)
        IN  /\ Len(posts) = 3
            /\ posts[1].name = new_repo_name \o <<"-", "development">>
            /\ posts[2].name = new_repo_name \o <<"-", "pull-request">>
            /\ posts[3].name = new_repo_name \o <<"-", "release">>
            /\ posts[1].path = "/azure-pipelines.yml"
            /\ posts[2].path = "/azure-pipelines-pull-request.yml"
            /\ posts[3].path = "/azure-pipelines-release.yml"
            /\ \A i \in 1..3 : posts[i].repositoryId = last.pre_repository_id

\* Three POSTs although the development and pull-request stages got 409.
C8_Witness ==
    /\ last.op = "create_pipelines"
    /\ last.pre_repository_id # None
    /\ last.stages[1].status = 409
    /\ last.stages[2].status = 409
    /\ Len(PipelinePosts(last.reqs)) = 3

\* A pipeline of the listing is the pull-request pipeline of the repository.
Matches(pipeline) ==
    /\ Contains(new_repo_name, pipeline.name)
    /\ Contains(<<"pull-request">>, pipeline.name)

\* The listing read from the answer of the fallback search.
Listed == IF last.search.body.hasValue THEN last.search.body.value ELSE <<>>

\* C9: _handle_pull_request_pipeline stores the id of the creation answer
\* when that answer holds one, and sends no request; when it holds none, one
\* GET lists the pipelines of the source project, and if the listing (status
\* 200, JSON) has a pipeline whose name contains the repository name and
\* "pull-request", the stored id becomes the id of the first such pipeline.
C9_PullRequestPipelineId ==
    last.op = "_handle_pull_request_pipeline" =>
        /\ (last.resp.body.json /\ last.resp.body.id # None)
               => cicd_pull_request_id = last.resp.body.id /\ last.reqs = <<>>
        /\ ~(last.resp.body.json /\ last.resp.body.id # None)
               => /\ Len(last.reqs) = 1
                  /\ last.reqs[1].method = "GET"
                  /\ last.reqs[1].api = "pipelines"
                  /\ last.reqs[1].project = "source"
                  /\ (last.search.status = 200 /\ last.search.body.json)
                         => \A i \in 1..Len(Listed) :
                                ( /\ Matches(Listed[i])
                                  /\ \A j \in 1..(i - 1) : ~Matches(Listed[j])
                                  /\ Listed[i].id # None )
                                    => cicd_pull_request_id = Listed[i].id

\* The fallback search skipping the pull-request pipeline of another
\* repository and replacing the stored id by the id of the second entry.
C9_Witness ==
    /\ last.op = "_handle_pull_request_pipeline"
    /\ ~last.resp.body.json
    /\ last.search.status = 200
    /\ Len(Listed) = 2
    /\ ~Matches(Listed[1])
    /\ Contains(<<"pull-request">>, Listed[1].name)
    /\ Listed[1].id = 1
    /\ Matches(Listed[2])
    /\ Listed[2].id = 2
    /\ last.pre_pull_request_id = 1
    /\ cicd_pull_request_id = 2

\* C10: add_msg sends exactly one POST and returns True iff the status of
\* the answer is 200; every other status, 2xx or not, gives False.
C10_AddMsgTrueIff200 ==
    last.op = "add_msg" =>
        /\ Len(last.reqs) = 1
        /\ last.reqs[1].method = "POST"
        /\ last.ret \in {"True", "False"}
        /\ last.ret = "True" <=> last.resp.status = 200

\* A comment answered 201, reported as a failure.
C10_Witness ==
    /\ last.op = "add_msg"
    /\ last.resp.status = 201
    /\ last.ret = "False"
    /\ Len(last.reqs) = 1

\* The upload POST and the comment POSTs among the requests of a call.
IsUpload(r) == r.method = "POST" /\ r.content_type = "application/octet-stream"

IsComment(r, content) ==
    /\ r.method = "POST"
    /\ r.content_type = "application/json"
    /\ Len(r.json.comments) = 1
    /\ r.json.comments[1].content = content

\* C11: upload_attachment_and_comment: called with a path that is not an
\* existing file, it returns False and sends no request at all.
C11_NoFileNoCall ==
    (last.op = "upload_attachment_and_comment" /\ last.arg \notin Files)
        => /\ last.ret = "False"
           /\ last.reqs = <<>>

\* An upload of a path that is not a file has returned.
C11_Witness ==
    /\ last.op = "upload_attachment_and_comment"
    /\ last.arg = "nonexistent.png"
    /\ last.ret = "False"
    /\ last.reqs = <<>>

C13_NoCommentWithout201 ==
    (/\ last.op = "upload_attachment_and_comment"
     /\ last.arg \in Files
     /\ last.resp.status # 201)
        => /\ last.ret = "False"
           /\ Len(last.reqs) = 1
           /\ IsUpload(last.reqs[1])

\* An upload answered 500 has returned.
C13_Witness ==
    /\ last.op = "upload_attachment_and_comment"
    /\ last.arg \in Files
    /\ last.resp.status = 500
    /\ last.ret = "False"
    /\ Len(last.reqs) = 1

\* The CSV files of a directory that parse to a table with rows, in order.
Reports(dir) ==
    IF ~dir.exists THEN <<>>
    ELSE SelectSeq(dir.entries,
                   LAMBDA e : /\ e.name[2] = "csv"
                              /\ e.parse.error = ""
                              /\ Len(e.parse.df.rows) > 0)

\* C14: add_validation_reports: the requests of a call are exactly one
\* comment POST for each CSV file of the directory that parses to a table
\* with rows, in order, its content the table as markdown; so no comment for
\* a file that fails to parse or parses to an empty table, none after an
\* absent directory, and neither a failing file nor a refused post keeps the
\* later files from being posted.
C14_OneCommentPerReport ==
    last.op = "add_validation_reports" =>
        /\ last.ret = "None"
        /\ Len(last.reqs) = Len(Reports(last.resp))
        /\ \A i \in 1..Len(last.reqs) :
               IsComment(last.reqs[i], ToMarkdown(Reports(last.resp)[i].parse.df))

\* A directory of three CSV files: the first fails to parse, the post of the
\* second is refused, and the third is posted all the same.
C14_Witness ==
    /\ last.op = "add_validation_reports"
    /\ last.resp.exists
    /\ Len(last.resp.entries) = 3
    /\ last.resp.entries[1].name[2] = "csv"
    /\ last.resp.entries[1].parse.error # ""
    /\ Len(Reports(last.resp)) = 2
    /\ last.stages[2].status = 500
    /\ last.stages[3].status = 200
    /\ Len(last.reqs) = 2

\* C15: read_output_file: the content of the file when it reads, None when
\* and only when the file is missing, and every other error raised again.
C15_ReadOutputFile ==
    last.op = "read_output_file" =>
        /\ last.resp.error = "" => (last.ret = "str" /\ last.value = <<last.resp.content>>)
        /\ last.ret = "None" <=> last.resp.error = "FileNotFoundError"
        /\ last.resp.error \notin {"", "FileNotFoundError"} => last.ret = last.resp.error

\* A read that was refused has raised PermissionError.
C15_Witness ==
    /\ last.op = "read_output_file"
    /\ last.resp.error = "PermissionError"
    /\ last.ret = "PermissionError"

\* C16: add_cdk_diff_comment: exactly one comment is posted, with the fixed
\* text when the content is None or empty and with the content itself
\* otherwise, and the call returns what add_msg returned (True iff the POST
\* was answered 200).
C16_OneDiffComment ==
    last.op = "add_cdk_diff_comment" =>
        /\ Len(last.reqs) = 1
        /\ IsComment(last.reqs[1],
                     IF last.value \in {<<>>, <<"">>}
                     THEN "CDK Diff found no resource is going to change"
                     ELSE last.value[1])
        /\ last.ret \in {"True", "False"}
        /\ last.ret = "True" <=> last.stages[1].status = 200

\* The fixed text was posted for a content of None and the post was refused.
C16_Witness ==
    /\ last.op = "add_cdk_diff_comment"
    /\ last.value = <<>>
    /\ last.stages[1].status = 500
    /\ last.ret = "False"
    /\ Len(last.reqs) = 1

\* The calls of the given operation made so far by main().
CallsOf(op) == SelectSeq(calls, LAMBDA c : c.op = op)

\* C17: comment.main(): once the diff comment step has run, whatever it
\* returned, the run goes on to add_validation_reports, which is called
\* exactly once, after the diff comment.
C17_ReportsAfterDiffComment ==
    /\ Len(CallsOf("add_validation_reports")) <= 1
    /\ Len(CallsOf("add_cdk_diff_comment")) = 1
           => /\ pc \in {"add_validation_reports", "done"}
              /\ calls[2].op = "add_cdk_diff_comment"
    /\ pc = "done"
           => /\ Len(CallsOf("add_validation_reports")) = 1
              /\ Len(calls) = 3
              /\ calls[2].op = "add_cdk_diff_comment"
              /\ calls[3].op = "add_validation_reports"

\* A run that posted reports after the diff comment was refused.
C17_Witness ==
    /\ pc = "done"
    /\ Len(calls) = 3
    /\ calls[2].op = "add_cdk_diff_comment"
    /\ ~calls[2].ok
    /\ calls[3].op = "add_validation_reports"
    /\ Len(http) >= 2

\* C18: CDKConfig: a load (by the constructor or by load_config) of a file
\* that is absent raises FileNotFoundError and of a file that is not valid
\* JSON raises JSONDecodeError, out of the call; a failed load_config leaves
\* the data of the object as it was before the call.
C18_LoadErrors ==
    last.op \in {"CDKConfig", "load_config"} =>
        /\ last.resp.error = "FileNotFoundError" => last.ret = "FileNotFoundError"
        /\ last.resp.error = "JSONDecodeError" => last.ret = "JSONDecodeError"
        /\ last.resp.error = "" => last.ret = "dict" /\ config.data = last.resp.data
        /\ (last.op = "load_config" /\ last.resp.error # "")
               => config.data = last.pre_data

\* A reload of an object that holds two keys failed on invalid JSON and the
\* two keys are still held.
C18_Witness ==
    /\ last.op = "load_config"
    /\ last.resp.error = "JSONDecodeError"
    /\ last.ret = "JSONDecodeError"
    /\ DOMAIN config.data = Keys
    /\ config.data = last.pre_data

\* C19: CDKConfig.get_value: it returns the value mapped to the key when the
\* key is present and the default (None when none is given) when it is
\* absent; it raises nothing and leaves the data as it was.
C19_GetValue ==
    last.op = "get_value" =>
        /\ last.ret = "value"
        /\ last.arg \in DOMAIN config.data => last.value[1] = <<config.data[last.arg]>>
        /\ last.arg \notin DOMAIN config.data => last.value[1] = last.value[2]
        /\ config.data = last.pre_data

\* An absent key asked without a default has given None, from an object that
\* holds other keys.
C19_Witness ==
    /\ last.op = "get_value"
    /\ last.arg = "NonExistentKey"
    /\ last.value = <<<<>>, <<>>>>
    /\ last.ret = "value"
    /\ DOMAIN config.data = Keys

\* C20: get_logger: the level of the logger it returns is the log_level
\* argument whenever one is given; without one it is the level that
\* AZURE_PIPELINES_LOG_LEVEL names, and INFO when the variable is unset or
\* holds a text that is not DEBUG, INFO, WARNING, ERROR or CRITICAL.
C20_LevelOfLogger ==
    last.op = "get_logger" =>
        LET log_level == last.value[1]
            env == last.value[2]
        IN  loggers[last.arg].level =
                IF log_level # <<>> THEN log_level[1]
                ELSE IF env = <<"DEBUG">> THEN logging.DEBUG
                ELSE IF env = <<"INFO">> THEN logging.INFO
                ELSE IF env = <<"WARNING">> THEN logging.WARNING
                ELSE IF env = <<"ERROR">> THEN logging.ERROR
                ELSE IF env = <<"CRITICAL">> THEN logging.CRITICAL
                ELSE logging.INFO

\* C21: add_msg: the request goes to
\* {collection URI}{project}/_apis/git/repositories/{repository id}/pullRequests/{PR id}/threads?api-version=7.1
\* with the values the Message object took from the environment, and its JSON
\* body is the thread {comments: [{parentCommentId: 1, content, commentType:
\* 1}], status: 1} whose content is the text given, whatever the text.
C21_CommentRequest ==
    last.op = "add_msg" =>
        /\ Len(last.reqs) = 1
        /\ last.reqs[1].url =
               message.collection_uri \o message.team_project
               \o "/_apis/git/repositories/" \o message.repository_id
               \o "/pullRequests/" \o message.pull_request_id
               \o "/threads?api-version=7.1"
        /\ last.reqs[1].json =
               [comments |-> <<[parentCommentId |-> 1, content |-> last.arg,
                                commentType |-> 1]>>,
                status |-> 1]

\* The comment "hello" was posted to pull request 22 of project fabrikam.
C21_Witness ==
    /\ last.op = "add_msg"
    /\ last.arg = "hello"
    /\ Len(last.reqs) = 1
    /\ last.reqs[1].url = "https://dev.azure.com/fabrikam/_apis/git/repositories/abc/pullRequests/22/threads?api-version=7.1"
    /\ last.reqs[1].json.comments[1].content = "hello"

\* A status outside 200..299.
Non2xx(status) == status < 200 \/ status >= 300

\* The last call sent its own request (the comment POST, the upload POST, the
\* create POST, the policy POST) and this is the answer to it.
OwnRequestAnswered ==
    \/ last.op \in {"add_msg", "create_azure_devops_repo"}
    \/ last.op = "upload_attachment_and_comment" /\ last.arg \in Files
    \/ last.op = "create_pull_request_policy" /\ last.reqs # <<>>

\* C22 as stated: add_msg, upload_attachment_and_comment,
\* create_azure_devops_repo and create_pull_request_policy never return True
\* when the answer to their request has a status outside 2xx.
C22_NeverTrueAfterNon2xx ==
    (OwnRequestAnswered /\ Non2xx(last.resp.status)) => last.ret # "True"

\* C22, amended: after an answer outside 2xx to their request add_msg,
\* upload_attachment_and_comment and create_pull_request_policy return False,
\* and so does create_azure_devops_repo unless the status is 409; after 409
\* create_azure_devops_repo returns True exactly when the lookup GET is
\* answered 200 with an id, so never after an answer outside 2xx to the lookup.
C22_FalseAfterNon2xx ==
    /\ (OwnRequestAnswered /\ Non2xx(last.resp.status) /\ last.resp.status # 409)
           => last.ret = "False"
    /\ (OwnRequestAnswered /\ last.resp.status = 409
        /\ last.op # "create_azure_devops_repo")
           => last.ret = "False"
    /\ (last.op = "create_azure_devops_repo" /\ last.resp.status = 409)
           => /\ last.ret \in {"True", "False"}
              /\ last.ret = "True" <=> /\ last.lookup.status = 200
                                       /\ JsonIdOutcome(last.lookup.body) = "ok"
              /\ Non2xx(last.lookup.status) => last.ret = "False"

\* A policy POST answered 409 has returned False.
C22_Witness ==
    /\ last.op = "create_pull_request_policy"
    /\ Len(last.reqs) = 1
    /\ last.resp.status = 409
    /\ last.ret = "False"

\* The number of requests of the run with the given method and endpoint, and
\* the number of times the run has started the given git command.
Sent(method, api) ==
    Len(SelectSeq(http, LAMBDA r : r.method = method /\ r.api = api))

RECURSIVE Commands(_)
Commands(cs) == IF cs = <<>> THEN <<>> ELSE Head(cs).cmds \o Commands(Tail(cs))

Ran(cmd) == Len(SelectSeq(Commands(calls), LAMBDA c : c = cmd))

\* C23: main(): at every point of a run, whatever the answers, the run has
\* sent at most one repository-creation POST, at most one repository lookup
\* GET, three or no pipeline-creation POSTs, at most one pipeline-list GET and
\* at most one policy POST, and has run each git command at most once.
C23_NoRetry ==
    /\ Sent("POST", "git/repositories") <= 1
    /\ Sent("GET", "git/repositories/{name}") <= 1
    /\ Sent("POST", "pipelines") \in {0, 3}
    /\ Sent("GET", "pipelines") <= 1
    /\ Sent("POST", "policy/configurations") <= 1
    /\ Ran("remote set-url") <= 1
    /\ Ran("push") <= 1

\* A finished run in which every kind of request was refused or failed once:
\* create answered 409, the pull-request stage without an id, the listing
\* refused, the push failed; nothing was sent twice.
C23_Witness ==
    /\ pc = "done"
    /\ Sent("POST", "git/repositories") = 1
    /\ Sent("GET", "git/repositories/{name}") = 1
    /\ Sent("POST", "pipelines") = 3
    /\ Sent("GET", "pipelines") = 1
    /\ \E i \in 1..Len(calls) : calls[i].op = "git_migrate" /\ ~calls[i].ok
    /\ Ran("remote set-url") = 1
    /\ Ran("push") = 1

\* C24: create_pull_request_policy on a session that holds both ids: exactly
\* one request is sent, a POST of the policy whose body has the stored
\* pull-request-pipeline id as buildDefinitionId and a scope of one entry: the
\* stored repository id, refName refs/heads/master, matchKind exact; the call
\* returns True iff the answer has status 200.
C24_PolicyRequest ==
    (/\ last.op = "create_pull_request_policy"
     /\ ~Falsy(last.pre_repository_id)
     /\ ~Falsy(last.pre_pull_request_id))
        => /\ Len(last.reqs) = 1
           /\ last.reqs[1].method = "POST"
           /\ last.reqs[1].api = "policy/configurations"
           /\ last.reqs[1].json.settings.buildDefinitionId = last.pre_pull_request_id
           /\ last.reqs[1].json.settings.scope =
                  <<[repositoryId |-> last.pre_repository_id,
                     refName |-> "refs/heads/master",
                     matchKind |-> "exact"]>>
           /\ last.ret \in {"True", "False"}
           /\ last.ret = "True" <=> last.resp.status = 200

\* A policy for repository 1 and pipeline 2 was posted and answered 200.
C24_Witness ==
    /\ last.op = "create_pull_request_policy"
    /\ last.pre_repository_id = 1
    /\ last.pre_pull_request_id = 2
    /\ Len(last.reqs) = 1
    /\ last.resp.status = 200
    /\ last.ret = "True"

C26_NoRollback ==
    [][/\ new_repository_id # None => new_repository_id' # None
       /\ cicd_pull_request_id # None => cicd_pull_request_id' # None
       /\ \A i \in 1..Len(http') : http'[i].method \in {"GET", "POST"}]_vars

\* A run whose last step, the policy POST, was refused, with both ids still
\* stored as they were.
C26_Witness ==
    /\ pc = "done"
    /\ last.op = "create_pull_request_policy"
    /\ last.resp.status = 500
    /\ last.ret = "False"
    /\ last.pre_repository_id # None
    /\ last.pre_pull_request_id # None
    /\ new_repository_id = last.pre_repository_id
    /\ cicd_pull_request_id = last.pre_pull_request_id

\* C27: create_azure_devops_repo against the keeping service: every call,
\* the first or a later one, of the same session or of a new one, returns
\* True and leaves stored the id under which the service holds the repository
\* (the id of the first creation); the service has created a repository of
\* each name at most once.
C27_CreateOrDiscover ==
    /\ \A n \in RepoNames : remote[n].created <= 1
    /\ last.op = "create_azure_devops_repo"
           => /\ last.ret = "True"
              /\ remote[new_repo_name].id # None
              /\ new_repository_id = remote[new_repo_name].id
              /\ last.pre_repository_id # None
                     => new_repository_id = last.pre_repository_id

\* A new session has discovered, by 409 and lookup, the repository that an
\* earlier session created.
C27_Witness ==
    /\ last.op = "create_azure_devops_repo"
    /\ last.pre_repository_id = None
    /\ last.resp.status = 409
    /\ last.lookup.status = 200
    /\ last.ret = "True"
    /\ new_repository_id = remote[new_repo_name].id
    /\ remote[new_repo_name].created = 1

\* The pull-request stage of the last create_pipelines call gave no id: its
\* answer holds none, and the search was refused, or was answered 200 with a
\* body that lists no pipeline of the repository named pull-request.
NoPullRequestIdFound ==
    /\ last.op = "create_pipelines"
    /\ last.pre_repository_id # None
    /\ JsonIdOutcome(last.stages[2].body) # "ok"
    /\ \/ last.search.status # 200
       \/ \A i \in 1..Len(Listed) : ~Matches(Listed[i])

PolicyPosted == \E i \in 1..Len(http) : http[i].api = "policy/configurations"

\* C28: main(): a policy POST is in the requests of a run only when the run
\* has stored both ids; and when the pull-request stage gives no id (none in
\* its answer, the search refused or without a matching pipeline) the
\* pull-request-pipeline id stays None, the release pipeline is still
\* posted, git_migrate is still called, and the run ends, after a
\* create_pull_request_policy that returns False, without a policy POST.
C28_PolicyOnlyWithBothIds ==
    /\ PolicyPosted => (new_repository_id # None /\ cicd_pull_request_id # None)
    /\ NoPullRequestIdFound
           => /\ cicd_pull_request_id = None
              /\ Len(PipelinePosts(last.reqs)) = 3
              /\ PipelinePosts(last.reqs)[3].name = new_repo_name \o <<"-", "release">>
              /\ pc = "git_migrate"
    /\ (pc \in {"create_pull_request_policy", "done"} /\ cicd_pull_request_id = None)
           => /\ calls[3].op = "git_migrate"
              /\ ~PolicyPosted
              /\ pc = "done" => /\ Len(calls) = 4
                                /\ calls[4].op = "create_pull_request_policy"
                                /\ calls[4].ret = "False"

\* The pull-request stage has found no id: the search was answered 200 with
\* a listing that holds another pipeline only.
C28_Witness ==
    /\ NoPullRequestIdFound
    /\ last.search.status = 200
    /\ Len(Listed) = 1
    /\ cicd_pull_request_id = None
    /\ Len(PipelinePosts(last.reqs)) = 3

\* The fallback searches among the requests of the last call.
Searches == SelectSeq(last.reqs, LAMBDA r : r.method = "GET" /\ r.api = "pipelines")

\* C29: create_pipelines on a session with a repository id: when the body of
\* the pull-request answer parses and holds an id, that id is stored and no
\* search is sent, whatever the status of the answer; a search is sent iff
\* the body does not parse or holds no id; and the stored id never comes
\* from the development or the release answer: when the pull-request stage
\* gives none (search refused, or no matching pipeline listed) the stored id
\* is what it was, and else it is the id of a matching pipeline listed.
C29_IdWithoutStatus ==
    (last.op = "create_pipelines" /\ last.pre_repository_id # None) =>
        LET pr == last.stages[2]
        IN  /\ JsonIdOutcome(pr.body) = "ok"
                   => cicd_pull_request_id = pr.body.id /\ Searches = <<>>
            /\ JsonIdOutcome(pr.body) # "ok" <=> Len(Searches) = 1
            /\ Len(Searches) <= 1
            /\ NoPullRequestIdFound => cicd_pull_request_id = last.pre_pull_request_id
            /\ (JsonIdOutcome(pr.body) # "ok" /\ ~NoPullRequestIdFound)
                   => \E i \in 1..Len(Listed) :
                          Matches(Listed[i]) /\ cicd_pull_request_id = Listed[i].id

\* The pull-request POST was answered 409 with a body holding id 2, which
\* was stored without a search, the development answer holding id 1.
C29_Witness ==
    /\ last.op = "create_pipelines"
    /\ last.stages[2].status = 409
    /\ JsonIdOutcome(last.stages[2].body) = "ok"
    /\ last.stages[2].body.id = 2
    /\ last.stages[1].body.id = 1
    /\ last.stages[3].body.id = 1
    /\ last.pre_pull_request_id = None
    /\ cicd_pull_request_id = 2
    /\ Searches = <<>>

\* The last call asked for console output: any get_logger call, or a
\* configure_logging call with console_output.
ConsoleCall ==
    \/ last.op = "get_logger"
    \/ last.op = "configure_logging" /\ last.value[2]

============================================================================
